---- MODULE Spec2Model ----
(***************************************************************************)
(* Offline semantic search of janani-ai: the useJananiBrain hooks, their   *)
(* search workers and the Dexie stores (db.guidelines, db.vectors).        *)
(*                                                                         *)
(* variant "A": the hook with the 30 s fallback and the worker that keeps  *)
(*              the vectors in memory (SEARCH -> RESULT with top 5).       *)
(* variant "B": the guidelines-app hook and worker (the worker returns the *)
(*              query vector, the hook ranks against db.vectors; keyword   *)
(*              search in BASIC_MODE).                                     *)
(***************************************************************************)
EXTENDS Integers, Sequences, FiniteSets, TLC

\* ------------------------------------------------------------------ bounds
\* hook instances sharing the one IndexedDB (two mounts, two tabs)
NumInst == 2
\* search() calls per session
MaxCalls == 2
\* page reloads in the bootstrap specification
MaxReloads == 2
\* largest topK a caller passes besides the default 5
MaxTopK == 1

\* the worker's fixed cut: .slice(0, 5)
WorkerTopK == 5

Inst == 1..NumInst
Calls == 1..MaxCalls
Null == "null"

\* ----------------------------------------------------------------- strings
\* A string is a sequence of one-character strings.

ToLowerChar(c) ==
    CASE c = "F" -> "f"
      [] c = "D" -> "d"
      [] c = "B" -> "b"
      [] c = "H" -> "h"
      [] OTHER -> c

\* String.prototype.toLowerCase
ToLower(s) == [i \in 1..Len(s) |-> ToLowerChar(s[i])]

IsSpace(c) == c = " "

RECURSIVE TrimLeft(_)
TrimLeft(s) == IF s # <<>> /\ IsSpace(Head(s)) THEN TrimLeft(Tail(s)) ELSE s

RECURSIVE TrimRight(_)
TrimRight(s) ==
    IF s # <<>> /\ IsSpace(s[Len(s)]) THEN TrimRight(SubSeq(s, 1, Len(s) - 1)) ELSE s

\* String.prototype.trim
Trim(s) == TrimRight(TrimLeft(s))

\* String.prototype.includes
Includes(s, sub) ==
    \E i \in 0..(Len(s) - Len(sub)) : SubSeq(s, i + 1, i + Len(sub)) = sub

RECURSIVE Join(_, _)
\* Array.prototype.join
Join(parts, sep) ==
    IF parts = <<>> THEN <<>>
    ELSE IF Len(parts) = 1 THEN parts[1]
    ELSE parts[1] \o sep \o Join(Tail(parts), sep)

RECURSIVE CountChar(_, _)
CountChar(s, c) ==
    IF s = <<>> THEN 0
    ELSE (IF Head(s) = c THEN 1 ELSE 0) + CountChar(Tail(s), c)

\* ------------------------------------------------------------------ corpus
\* The bundled /data/who_guidelines.json, cut down to three guidelines.
DocIds == <<"a", "b", "c">>

Doc(id) ==
    CASE id = "a" ->
           [id |-> "a",
            title |-> <<"F", "e", "v", "e", "r">>,
            text |-> <<"f", "e", "v", "e", "r", " ", "a", "n", "d", " ",
                       "h", "e", "a", "d", "a", "c", "h", "e">>,
            tags |-> << <<"p", "a", "i", "n">> >>]
      [] id = "b" ->
           [id |-> "b",
            title |-> <<"D", "i", "e", "t">>,
            text |-> <<"s", "a", "f", "e", " ", "t", "o", " ", "e", "a", "t", " ",
                       "p", "a", "p", "a", "y", "a">>,
            tags |-> << <<"f", "o", "o", "d">>, <<"f", "r", "u", "i", "t">> >>]
      [] OTHER ->
           [id |-> "c",
            title |-> <<"B", "l", "e", "e", "d", "i", "n", "g">>,
            text |-> <<"h", "e", "a", "v", "y", " ", "b", "l", "e", "e", "d", "i", "n", "g">>,
            tags |-> << <<"e", "m", "e", "r", "g", "e", "n", "c", "y">> >>]

\* the queries a caller types
Queries == {"empty", "blank", "headache", "papaya", "xyz123", "Headache", "multi"}

\* the queries tried on the hook with the fallback timer, whose worker never
\* matches keywords
QueriesA == {"blank", "papaya"}

QueryText(q) ==
    CASE q = "empty" -> <<>>
      [] q = "blank" -> <<" ", " ", " ">>
      [] q = "headache" -> <<"h", "e", "a", "d", "a", "c", "h", "e">>
      [] q = "papaya" -> <<"p", "a", "p", "a", "y", "a">>
      [] q = "xyz123" -> <<"x", "y", "z", "1", "2", "3">>
      [] q = "multi" -> <<"h", "e", "a", "d", "a", "c", "h", "e", " ",
                          "f", "e", "v", "e", "r">>
      [] OTHER -> <<"H", "e", "a", "d", "a", "c", "h", "e">>

\* `${item.title} ${item.text} ${item.tags.join(' ')}`
Content(d) == d.title \o <<" ">> \o d.text \o <<" ">> \o Join(d.tags, <<" ">>)

\* -------------------------------------------------------------- embeddings
\* The feature-extraction pipeline is an opaque deterministic function from a
\* text to a non-zero vector of fixed length; here a two-component count.
extractorFn(text) == <<1 + CountChar(text, "e"), 1 + CountChar(text, "a")>>

RECURSIVE SumTo(_, _, _, _)
\* sum over i in 1..n of f(a, b, i), as the loop of cosineSimilarity builds it
SumTo(a, b, n, which) ==
    IF n = 0 THEN 0
    ELSE SumTo(a, b, n - 1, which)
         + (CASE which = "dot" -> a[n] * b[n]
              [] which = "normA" -> a[n] * a[n]
              [] OTHER -> b[n] * b[n])

\* cosineSimilarity(a, b): the loop runs over a.length and reads b[i]; an index
\* past the end of b reads undefined and makes the result NaN, as does a zero
\* norm.  A score is kept exactly as dot / sqrt(nn).
cosineSimilarity(a, b) ==
    IF Len(b) < Len(a) THEN [nan |-> TRUE, dot |-> 0, nn |-> 0]
    ELSE LET dot == SumTo(a, b, Len(a), "dot")
             nn == SumTo(a, b, Len(a), "normA") * SumTo(a, b, Len(a), "normB")
         IN [nan |-> (nn = 0), dot |-> dot, nn |-> nn]

\* s1 > s2 on floating-point scores (false as soon as one is NaN)
ScoreGT(s1, s2) ==
    /\ ~s1.nan
    /\ ~s2.nan
    /\ IF s1.dot >= 0 /\ s2.dot >= 0 THEN s1.dot * s1.dot * s2.nn > s2.dot * s2.dot * s1.nn
       ELSE IF s1.dot >= 0 THEN TRUE
       ELSE IF s2.dot >= 0 THEN FALSE
       ELSE s1.dot * s1.dot * s2.nn < s2.dot * s2.dot * s1.nn

\* s1 >= s2
ScoreGE(s1, s2) == ~s1.nan /\ ~s2.nan /\ ~ScoreGT(s2, s1)

RECURSIVE InsertDesc(_, _)
\* place x after every entry the comparator does not order behind it
InsertDesc(sorted, x) ==
    IF sorted = <<>> THEN <<x>>
    ELSE IF ScoreGT(x.score, Head(sorted).score) THEN <<x>> \o sorted
    ELSE <<Head(sorted)>> \o InsertDesc(Tail(sorted), x)

\* a ranking that leaves the rows in store order
SortNone(xs) == xs

RECURSIVE SortDesc(_)
\* xs.sort((a, b) => b.score - a.score): stable, descending by score
SortDesc(xs) ==
    IF xs = <<>> THEN <<>>
    ELSE InsertDesc(SortDesc(SubSeq(xs, 1, Len(xs) - 1)), xs[Len(xs)])

\* xs.slice(0, k)
Slice(xs, k) == SubSeq(xs, 1, IF Len(xs) < k THEN Len(xs) ELSE k)

\* ------------------------------------------------------------------- state
VARIABLES
    variant,          \* which hook/worker pair the page runs: "A", "B" or "C"
    guidelines,       \* db.guidelines: the stored guideline ids in key order
    vectors,          \* db.vectors: rows [guidelineId, vector, item] in key order (++id)
    reloads,          \* page reloads so far
    pc,               \* position of initialize() of each hook instance
    state,            \* the hook's useState record
    isMounted,        \* the effect's isMounted flag
    workerRef,        \* workerRef.current: Null or "worker"
    alive,            \* the worker exists and has not been terminated
    fallbackTimeout,  \* the 30 s timer: "unset", "armed", "cleared", "fired"
    existingVectors,  \* the rows read by db.vectors.toArray() on the warm path
    toWorker,         \* messages posted to the worker, not yet dispatched
    toHook,           \* messages posted by the worker, not yet dispatched
    extractor,        \* the worker's extractor: Null or "model"
    mode,             \* the worker's mode variable (variant B)
    guideVectors,     \* the worker's in-memory vectors
    wpc,              \* position of the worker's INIT / LOAD_VECTORS handler
    wmsg,             \* the message that handler is working on
    wsearch,          \* SEARCH handlers waiting for extractor(query)
    savePc,           \* position of the hook's VECTORS_GENERATED handler
    savePayload,      \* the payload that handler is saving
    calls,            \* the search() calls of the session
    genPc,            \* position of each call of generateAllEmbeddings
    genDocs,          \* the guidelines that call read with db.guidelines.toArray()
    genIdx            \* the guideline the loop of that call is at

vars == <<variant, guidelines, vectors, reloads, pc, state, isMounted, workerRef, alive,
          fallbackTimeout, existingVectors, toWorker, toHook, extractor, mode,
          guideVectors, wpc, wmsg, wsearch, savePc, savePayload, calls,
          genPc, genDocs, genIdx>>

dbVars == <<guidelines, vectors>>
hookVars == <<pc, state, isMounted, workerRef, fallbackTimeout, existingVectors>>
workerVars == <<extractor, mode, guideVectors, wpc, wmsg, wsearch>>
saveVars == <<savePc, savePayload>>
genVars == <<genPc, genDocs, genIdx>>

\* useState initial value of the hook with the fallback timer
InitialStateA ==
    [isReady |-> FALSE, isLoading |-> TRUE, isSearching |-> FALSE,
     searchMode |-> "BASIC_MODE", error |-> Null]

\* useState initial value of the guidelines-app hook
InitialStateB ==
    [isReady |-> FALSE, isLoading |-> TRUE, isSearching |-> FALSE,
     searchMode |-> "INITIALIZING", error |-> Null]

\* useState initial values of the frontend hook useJananiSearch
InitialStateC == [searchMode |-> "BASIC", results |-> <<>>]

\* the useState value a hook of variant v starts with
InitialState(v) ==
    IF v = "A" THEN InitialStateA ELSE IF v = "B" THEN InitialStateB ELSE InitialStateC

NoMessage == [type |-> "none", payload |-> <<>>]

IdleCall ==
    [st |-> "idle", query |-> "empty", topK |-> 0, ready |-> FALSE, modeAtCall |-> Null,
     listener |-> FALSE, timer |-> "unset", posted |-> FALSE, step |-> "none",
     queryVector |-> <<>>, scored |-> <<>>, got |-> Null, result |-> <<>>]

\* one row of db.vectors as the worker generates it for guideline id
VectorOf(id) ==
    [guidelineId |-> id, vector |-> extractorFn(Content(Doc(id))), item |-> id]

AllVectors == [n \in 1..Len(DocIds) |-> VectorOf(DocIds[n])]

\* what an earlier session can have left in the stores: a fresh profile, a
\* seeded corpus without vectors, a seeded corpus with its vectors
StoreStates ==
    { <<(<<>>), (<<>>)>>, <<DocIds, (<<>>)>>, <<DocIds, AllVectors>> }

SessionInit(v) ==
    /\ variant = v
    /\ reloads = 0
    /\ pc = [i \in Inst |-> "unmounted"]
    /\ state = [i \in Inst |-> InitialState(v)]
    /\ isMounted = [i \in Inst |-> FALSE]
    /\ workerRef = [i \in Inst |-> Null]
    /\ alive = [i \in Inst |-> FALSE]
    /\ fallbackTimeout = [i \in Inst |-> "unset"]
    /\ existingVectors = [i \in Inst |-> <<>>]
    /\ toWorker = [i \in Inst |-> <<>>]
    /\ toHook = [i \in Inst |-> <<>>]
    /\ extractor = [i \in Inst |-> Null]
    /\ mode = [i \in Inst |-> "BASIC_MODE"]
    /\ guideVectors = [i \in Inst |-> <<>>]
    /\ wpc = [i \in Inst |-> "idle"]
    /\ wmsg = [i \in Inst |-> NoMessage]
    /\ wsearch = [i \in Inst |-> <<>>]
    /\ savePc = [i \in Inst |-> "idle"]
    /\ savePayload = [i \in Inst |-> <<>>]
    /\ calls = [i \in Inst |-> [c \in Calls |-> IdleCall]]
    /\ genPc = [i \in Inst |-> "idle"]
    /\ genDocs = [i \in Inst |-> <<>>]
    /\ genIdx = [i \in Inst |-> 0]

\* ------------------------------------------------------- shared operations
\* setState(prev => ({...prev, ...})) on instance i
SetState(i, new) == state' = [state EXCEPT ![i] = new]

\* worker.postMessage(m): a terminated worker drops it
PostToWorker(i, m) ==
    toWorker' = [toWorker EXCEPT ![i] = IF alive[i] THEN Append(@, m) ELSE @]

\* self.postMessage(ms...) in the worker
PostToHook(i, ms) == toHook' = [toHook EXCEPT ![i] = @ \o ms]

\* the state the catch block of initialize() sets (variant A: whole record,
\* variant B: functional update)
CatchState(i) ==
    IF variant = "A"
    THEN [isReady |-> TRUE, isLoading |-> FALSE, isSearching |-> FALSE,
          searchMode |-> "BASIC_MODE", error |-> "init"]
    ELSE [state[i] EXCEPT !.isReady = TRUE, !.isLoading = FALSE,
                          !.searchMode = "BASIC_MODE", !.error = "init"]

\* a catch that only logs
CatchLogsOnly(i) ==
    /\ pc' = [pc EXCEPT ![i] = "failed"]
    /\ state' = state

\* catch (err) of initialize(): variant A sets the state only while mounted
Catch(i) ==
    /\ pc' = [pc EXCEPT ![i] = "failed"]
    /\ IF variant = "A" /\ ~isMounted[i] THEN state' = state ELSE SetState(i, CatchState(i))

\* ------------------------------------------------- the effect: initialize()
\* useEffect body: isMounted = true; initialize() runs to `await seedDatabase()`,
\* which runs to its `await db.guidelines.count()`
Mount(i) ==
    /\ pc[i] = "unmounted"
    /\ pc' = [pc EXCEPT ![i] = "seedCount"]
    /\ isMounted' = [isMounted EXCEPT ![i] = TRUE]
    /\ UNCHANGED <<variant, genVars, dbVars, reloads, state, workerRef, alive, fallbackTimeout,
                   existingVectors, toWorker, toHook, workerVars, saveVars, calls>>

\* a seedDatabase that fetches and stores the corpus whatever the count is
SeedCountAlwaysFetch(i) ==
    /\ pc[i] = "seedCount"
    /\ pc' = [pc EXCEPT ![i] = "seedFetch"]
    /\ UNCHANGED <<variant, genVars, dbVars, reloads, state, isMounted, workerRef, alive,
                   fallbackTimeout, existingVectors, toWorker, toHook, workerVars,
                   saveVars, calls>>

\* seedDatabase: existingCount = await db.guidelines.count(); return when > 0
SeedCount(i) ==
    /\ pc[i] = "seedCount"
    /\ pc' = [pc EXCEPT ![i] = IF Len(guidelines) > 0 THEN "newWorker" ELSE "seedFetch"]
    /\ UNCHANGED <<variant, genVars, dbVars, reloads, state, isMounted, workerRef, alive,
                   fallbackTimeout, existingVectors, toWorker, toHook, workerVars,
                   saveVars, calls>>

\* seedDatabase: fetch('/data/who_guidelines.json') answers ok
SeedFetchOk(i) ==
    /\ pc[i] = "seedFetch"
    /\ pc' = [pc EXCEPT ![i] = "seedPut"]
    /\ UNCHANGED <<variant, genVars, dbVars, reloads, state, isMounted, workerRef, alive,
                   fallbackTimeout, existingVectors, toWorker, toHook, workerVars,
                   saveVars, calls>>

\* seedDatabase: the fetch rejects or answers !ok; the error is rethrown and
\* caught by initialize()
SeedFetchFails(i) ==
    /\ pc[i] = "seedFetch"
    /\ Catch(i)
    /\ UNCHANGED <<variant, genVars, dbVars, reloads, isMounted, workerRef, alive,
                   fallbackTimeout, existingVectors, toWorker, toHook, workerVars,
                   saveVars, calls>>

\* seedDatabase: db.guidelines.count() or db.guidelines.bulkPut() rejects (the
\* database cannot be opened, the quota is exceeded); the error is rethrown and
\* caught by initialize()
SeedDbThrows(i) ==
    /\ pc[i] \in {"seedCount", "seedPut"}
    /\ Catch(i)
    /\ UNCHANGED <<variant, genVars, dbVars, reloads, isMounted, workerRef, alive,
                   fallbackTimeout, existingVectors, toWorker, toHook, workerVars,
                   saveVars, calls>>

\* db.guidelines.bulkPut(guidelines): upsert by primary key id
BulkPutGuidelines(old, ids) ==
    SelectSeq(DocIds, LAMBDA d : (\E n \in 1..Len(old) : old[n] = d)
                                 \/ (\E n \in 1..Len(ids) : ids[n] = d))

\* seedDatabase: await db.guidelines.bulkPut(guidelines)
SeedPut(i) ==
    /\ pc[i] = "seedPut"
    /\ guidelines' = BulkPutGuidelines(guidelines, DocIds)
    /\ pc' = [pc EXCEPT ![i] = "newWorker"]
    /\ UNCHANGED <<variant, genVars, vectors, reloads, state, isMounted, workerRef, alive,
                   fallbackTimeout, existingVectors, toWorker, toHook, workerVars,
                   saveVars, calls>>

\* variant A: new Worker(...), the fallback timer, onmessage/onerror, up to
\* `await db.vectors.count()`
NewWorkerA(i) ==
    /\ variant = "A"
    /\ pc[i] = "newWorker"
    /\ workerRef' = [workerRef EXCEPT ![i] = "worker"]
    /\ alive' = [alive EXCEPT ![i] = TRUE]
    /\ fallbackTimeout' = [fallbackTimeout EXCEPT ![i] = "armed"]
    /\ pc' = [pc EXCEPT ![i] = "vecCount"]
    /\ UNCHANGED <<variant, genVars, dbVars, reloads, state, isMounted, existingVectors,
                   toWorker, toHook, workerVars, saveVars, calls>>

\* new Worker(...) throws (no worker support, blocked script)
NewWorkerThrows(i) ==
    /\ pc[i] = "newWorker"
    /\ Catch(i)
    /\ UNCHANGED <<variant, genVars, dbVars, reloads, isMounted, workerRef, alive,
                   fallbackTimeout, existingVectors, toWorker, toHook, workerVars,
                   saveVars, calls>>

\* a bootstrap that ignores the count and always takes the cold path
VecCountAlwaysCold(i) ==
    /\ pc[i] = "vecCount"
    /\ pc' = [pc EXCEPT ![i] = "coldDocs"]
    /\ UNCHANGED <<variant, genVars, dbVars, reloads, state, isMounted, workerRef, alive,
                   fallbackTimeout, existingVectors, toWorker, toHook, workerVars,
                   saveVars, calls>>

\* existingVectorCount = await db.vectors.count()
VecCount(i) ==
    /\ pc[i] = "vecCount"
    /\ pc' = [pc EXCEPT ![i] = IF Len(vectors) > 0 THEN "warmVectors" ELSE "coldDocs"]
    /\ UNCHANGED <<variant, genVars, dbVars, reloads, state, isMounted, workerRef, alive,
                   fallbackTimeout, existingVectors, toWorker, toHook, workerVars,
                   saveVars, calls>>

\* initialize(): db.vectors.count(), db.vectors.toArray() or
\* db.guidelines.toArray() rejects; caught by the catch of initialize()
VectorsReadThrows(i) ==
    /\ variant = "A"
    /\ pc[i] \in {"vecCount", "warmVectors", "warmDocs", "coldDocs"}
    /\ Catch(i)
    /\ UNCHANGED <<variant, genVars, dbVars, reloads, isMounted, workerRef, alive,
                   fallbackTimeout, existingVectors, toWorker, toHook, workerVars,
                   saveVars, calls>>

\* warm start: existingVectors = await db.vectors.toArray()
WarmVectors(i) ==
    /\ pc[i] = "warmVectors"
    /\ existingVectors' = [existingVectors EXCEPT ![i] = vectors]
    /\ pc' = [pc EXCEPT ![i] = "warmDocs"]
    /\ UNCHANGED <<variant, genVars, dbVars, reloads, state, isMounted, workerRef, alive,
                   fallbackTimeout, toWorker, toHook, workerVars, saveVars, calls>>

\* guidelinesMap.get(v.guidelineId) || null
ItemOf(docs, id) == IF \E n \in 1..Len(docs) : docs[n] = id THEN id ELSE Null

\* existingVectors.map(v => ({guidelineId, vector, item}))
vectorsWithItems(rows, docs) ==
    [n \in 1..Len(rows) |->
        [guidelineId |-> rows[n].guidelineId, vector |-> rows[n].vector,
         item |-> ItemOf(docs, rows[n].guidelineId)]]

\* the length of the vectors the session's model produces
ModelDim == Len(extractorFn(<<>>))

\* a warm start that checks the stored vectors against the model and has them
\* regenerated when a length differs
WarmDocsChecksDim(i) ==
    /\ pc[i] = "warmDocs"
    /\ IF \E n \in 1..Len(existingVectors[i]) : Len(existingVectors[i][n].vector) # ModelDim
       THEN PostToWorker(i, [type |-> "INIT", payload |-> guidelines])
       ELSE PostToWorker(i, [type |-> "LOAD_VECTORS",
                             payload |-> vectorsWithItems(existingVectors[i], guidelines)])
    /\ pc' = [pc EXCEPT ![i] = "done"]
    /\ UNCHANGED <<variant, genVars, dbVars, reloads, state, isMounted, workerRef, alive,
                   fallbackTimeout, existingVectors, toHook, workerVars, saveVars, calls>>

\* warm start: guidelines = await db.guidelines.toArray(); post LOAD_VECTORS
WarmDocs(i) ==
    /\ pc[i] = "warmDocs"
    /\ PostToWorker(i, [type |-> "LOAD_VECTORS",
                        payload |-> vectorsWithItems(existingVectors[i], guidelines)])
    /\ pc' = [pc EXCEPT ![i] = "done"]
    /\ UNCHANGED <<variant, genVars, dbVars, reloads, state, isMounted, workerRef, alive,
                   fallbackTimeout, existingVectors, toHook, workerVars, saveVars, calls>>

\* cold start: guidelines = await db.guidelines.toArray(); post INIT
ColdDocs(i) ==
    /\ pc[i] = "coldDocs"
    /\ PostToWorker(i, [type |-> "INIT", payload |-> guidelines])
    /\ pc' = [pc EXCEPT ![i] = "done"]
    /\ UNCHANGED <<variant, genVars, dbVars, reloads, state, isMounted, workerRef, alive,
                   fallbackTimeout, existingVectors, toHook, workerVars, saveVars, calls>>

\* a fallback timer whose callback leaves the state alone
FallbackTimeoutNoReady(i) ==
    /\ fallbackTimeout[i] = "armed"
    /\ fallbackTimeout' = [fallbackTimeout EXCEPT ![i] = "fired"]
    /\ UNCHANGED <<variant, genVars, dbVars, reloads, pc, state, isMounted, workerRef, alive,
                   existingVectors, toWorker, toHook, workerVars, saveVars, calls>>

\* the 30 s fallback timer fires
FallbackTimeoutFires(i) ==
    /\ fallbackTimeout[i] = "armed"
    /\ fallbackTimeout' = [fallbackTimeout EXCEPT ![i] = "fired"]
    /\ IF isMounted[i]
       THEN SetState(i, [state[i] EXCEPT !.isReady = TRUE, !.isLoading = FALSE,
                                         !.searchMode = "BASIC_MODE",
                                         !.error = "timeout"])
       ELSE state' = state
    /\ UNCHANGED <<variant, genVars, dbVars, reloads, pc, isMounted, workerRef, alive,
                   existingVectors, toWorker, toHook, workerVars, saveVars, calls>>

\* the effect's cleanup: isMounted = false; workerRef.current?.terminate()
Unmount(i) ==
    /\ isMounted[i]
    /\ isMounted' = [isMounted EXCEPT ![i] = FALSE]
    /\ IF workerRef[i] # Null
       THEN /\ alive' = [alive EXCEPT ![i] = FALSE]
            /\ toWorker' = [toWorker EXCEPT ![i] = <<>>]
            /\ toHook' = [toHook EXCEPT ![i] = <<>>]
       ELSE UNCHANGED <<alive, toWorker, toHook>>
    /\ UNCHANGED <<variant, genVars, dbVars, reloads, pc, state, workerRef, fallbackTimeout,
                   existingVectors, workerVars, saveVars, calls>>

\* ------------------------------------------------------ the worker, variant A
\* the worker script fails to load or throws at top level: worker.onerror
WorkerOnError(i) ==
    /\ variant = "A"
    /\ alive[i]
    /\ wpc[i] = "idle"
    /\ wpc' = [wpc EXCEPT ![i] = "crashed"]
    /\ fallbackTimeout' = [fallbackTimeout EXCEPT ![i] = IF @ = "armed" THEN "cleared" ELSE @]
    /\ IF isMounted[i]
       THEN SetState(i, [isReady |-> TRUE, isLoading |-> FALSE, isSearching |-> FALSE,
                         searchMode |-> "BASIC_MODE", error |-> "worker"])
       ELSE state' = state
    /\ UNCHANGED <<variant, genVars, dbVars, reloads, pc, isMounted, workerRef, alive,
                   existingVectors, toWorker, toHook, extractor, mode, guideVectors,
                   wmsg, wsearch, saveVars, calls>>

\* self.onmessage for INIT and LOAD_VECTORS: runs to `await initModel()`
WorkerReceiveInitA(i) ==
    /\ variant = "A"
    /\ alive[i]
    /\ wpc[i] # "crashed"
    /\ toWorker[i] # <<>>
    /\ Head(toWorker[i]).type \in {"INIT", "LOAD_VECTORS"}
    /\ toWorker' = [toWorker EXCEPT ![i] = Tail(@)]
    /\ wpc' = [wpc EXCEPT ![i] = "initModel"]
    /\ wmsg' = [wmsg EXCEPT ![i] = Head(toWorker[i])]
    /\ UNCHANGED <<variant, genVars, dbVars, reloads, hookVars, alive, toHook, extractor, mode,
                   guideVectors, wsearch, saveVars, calls>>

\* a handler that reports AI_READY whatever initModel() returned
InitModelFailsReportsReady(i) ==
    /\ variant = "A"
    /\ alive[i]
    /\ wpc[i] = "initModel"
    /\ wpc' = [wpc EXCEPT ![i] = "done"]
    /\ PostToHook(i, << [type |-> "STATUS", mode |-> "AI_READY"] >>)
    /\ UNCHANGED <<variant, genVars, dbVars, reloads, hookVars, alive, toWorker, extractor, mode,
                   guideVectors, wmsg, wsearch, saveVars, calls>>

\* initModel() returns false: the pipeline could not be loaded
InitModelFailsA(i) ==
    /\ variant = "A"
    /\ alive[i]
    /\ wpc[i] = "initModel"
    /\ wpc' = [wpc EXCEPT ![i] = "done"]
    /\ PostToHook(i, << [type |-> "STATUS", mode |-> "BASIC_MODE"] >>)
    /\ UNCHANGED <<variant, genVars, dbVars, reloads, hookVars, alive, toWorker, extractor, mode,
                   guideVectors, wmsg, wsearch, saveVars, calls>>

\* initModel() returns true; INIT goes on to generate (or reports AI_READY for an
\* empty corpus), LOAD_VECTORS takes the vectors and reports AI_READY
InitModelOkA(i) ==
    /\ variant = "A"
    /\ alive[i]
    /\ wpc[i] = "initModel"
    /\ extractor' = [extractor EXCEPT ![i] = "model"]
    /\ IF wmsg[i].type = "INIT"
       THEN IF Len(wmsg[i].payload) > 0
            THEN /\ guideVectors' = [guideVectors EXCEPT ![i] = <<>>]
                 /\ wpc' = [wpc EXCEPT ![i] = "generate"]
                 /\ toHook' = toHook
            ELSE /\ guideVectors' = guideVectors
                 /\ wpc' = [wpc EXCEPT ![i] = "done"]
                 /\ PostToHook(i, << [type |-> "STATUS", mode |-> "AI_READY"] >>)
       ELSE /\ guideVectors' = [guideVectors EXCEPT ![i] = wmsg[i].payload]
            /\ wpc' = [wpc EXCEPT ![i] = "done"]
            /\ PostToHook(i, << [type |-> "STATUS", mode |-> "AI_READY"] >>)
    /\ UNCHANGED <<variant, genVars, dbVars, reloads, hookVars, alive, toWorker, mode, wmsg,
                   wsearch, saveVars, calls>>

\* one turn of the INIT loop: extractor(content) returns, the vector is pushed;
\* after the last guideline VECTORS_GENERATED and STATUS AI_READY are posted
GenerateStep(i) ==
    /\ variant = "A"
    /\ alive[i]
    /\ wpc[i] = "generate"
    /\ LET item == wmsg[i].payload[Len(guideVectors[i]) + 1]
           pushed == Append(guideVectors[i], VectorOf(item))
       IN /\ guideVectors' = [guideVectors EXCEPT ![i] = pushed]
          /\ IF Len(pushed) = Len(wmsg[i].payload)
             THEN /\ wpc' = [wpc EXCEPT ![i] = "done"]
                  /\ PostToHook(i, << [type |-> "VECTORS_GENERATED", payload |-> pushed],
                                      [type |-> "STATUS", mode |-> "AI_READY"] >>)
             ELSE /\ wpc' = wpc
                  /\ toHook' = toHook
    /\ UNCHANGED <<variant, genVars, dbVars, reloads, hookVars, alive, toWorker, extractor, mode,
                   wmsg, wsearch, saveVars, calls>>

\* extractor(content) rejects inside the INIT loop: the handler ends there,
\* nothing is posted
GenerateThrows(i) ==
    /\ variant = "A"
    /\ alive[i]
    /\ wpc[i] = "generate"
    /\ wpc' = [wpc EXCEPT ![i] = "threw"]
    /\ UNCHANGED <<variant, genVars, dbVars, reloads, hookVars, alive, toWorker, toHook, extractor,
                   mode, guideVectors, wmsg, wsearch, saveVars, calls>>

\* self.onmessage for SEARCH: the two early answers, else `await extractor(query)`
WorkerReceiveSearchA(i) ==
    /\ variant = "A"
    /\ alive[i]
    /\ wpc[i] # "crashed"
    /\ toWorker[i] # <<>>
    /\ Head(toWorker[i]).type = "SEARCH"
    /\ toWorker' = [toWorker EXCEPT ![i] = Tail(@)]
    /\ IF extractor[i] = Null \/ Len(guideVectors[i]) = 0
       THEN /\ PostToHook(i, << [type |-> "RESULT", results |-> <<>>,
                                 query |-> Head(toWorker[i]).query] >>)
            /\ wsearch' = wsearch
       ELSE /\ wsearch' = [wsearch EXCEPT ![i] = Append(@, Head(toWorker[i]).query)]
            /\ toHook' = toHook
    /\ UNCHANGED <<variant, genVars, dbVars, reloads, hookVars, alive, extractor, mode,
                   guideVectors, wpc, wmsg, saveVars, calls>>

\* guideVectors.map(item => ({...item.item, score}))
scoredResults(queryVector, gv) ==
    [n \in 1..Len(gv) |->
        [item |-> gv[n].item, score |-> cosineSimilarity(queryVector, gv[n].vector)]]

\* scoredResults.sort((a, b) => b.score - a.score).slice(0, 5)
topResults(queryVector, gv) == Slice(SortDesc(scoredResults(queryVector, gv)), WorkerTopK)

\* drop entry n of a sequence
Remove(xs, n) == SubSeq(xs, 1, n - 1) \o SubSeq(xs, n + 1, Len(xs))

\* a SEARCH handler that uses up the best row: it is dropped from guideVectors
SearchEmbedConsumes(i) ==
    /\ variant = "A"
    /\ alive[i]
    /\ \E n \in 1..Len(wsearch[i]) :
          /\ wsearch' = [wsearch EXCEPT ![i] = Remove(@, n)]
          /\ guideVectors' = [guideVectors EXCEPT ![i] = Tail(@)]
          /\ PostToHook(i, << [type |-> "RESULT",
                               results |-> topResults(extractorFn(QueryText(wsearch[i][n])),
                                                      guideVectors[i]),
                               query |-> wsearch[i][n]] >>)
    /\ UNCHANGED <<variant, genVars, dbVars, reloads, hookVars, alive, toWorker, extractor, mode,
                   wpc, wmsg, saveVars, calls>>

\* a SEARCH handler that sorts guideVectors itself, in place, by score
SearchEmbedSortsInPlace(i) ==
    /\ variant = "A"
    /\ alive[i]
    /\ \E n \in 1..Len(wsearch[i]) :
          LET ranked == SortDesc(scoredResults(extractorFn(QueryText(wsearch[i][n])),
                                               guideVectors[i]))
              rowOf(item) == CHOOSE r \in {guideVectors[i][m] : m \in 1..Len(guideVectors[i])} :
                                r.item = item
          IN /\ wsearch' = [wsearch EXCEPT ![i] = Remove(@, n)]
             /\ guideVectors' = [guideVectors EXCEPT ![i] =
                                    [m \in 1..Len(ranked) |-> rowOf(ranked[m].item)]]
             /\ PostToHook(i, << [type |-> "RESULT",
                                  results |-> Slice(ranked, WorkerTopK),
                                  query |-> wsearch[i][n]] >>)
    /\ UNCHANGED <<variant, genVars, dbVars, reloads, hookVars, alive, toWorker, extractor, mode,
                   wpc, wmsg, saveVars, calls>>

\* extractor(query) returns in a SEARCH handler: rank the vectors in memory now
SearchEmbedDoneA(i) ==
    /\ variant = "A"
    /\ alive[i]
    /\ \E n \in 1..Len(wsearch[i]) :
          /\ wsearch' = [wsearch EXCEPT ![i] = Remove(@, n)]
          /\ PostToHook(i, << [type |-> "RESULT",
                               results |-> topResults(extractorFn(QueryText(wsearch[i][n])),
                                                      guideVectors[i]),
                               query |-> wsearch[i][n]] >>)
    /\ UNCHANGED <<variant, genVars, dbVars, reloads, hookVars, alive, toWorker, extractor, mode,
                   guideVectors, wpc, wmsg, saveVars, calls>>

\* extractor(query) rejects in a SEARCH handler: the catch posts ERROR
SearchEmbedThrowsA(i) ==
    /\ variant = "A"
    /\ alive[i]
    /\ \E n \in 1..Len(wsearch[i]) :
          /\ wsearch' = [wsearch EXCEPT ![i] = Remove(@, n)]
          /\ PostToHook(i, << [type |-> "ERROR", query |-> wsearch[i][n]] >>)
    /\ UNCHANGED <<variant, genVars, dbVars, reloads, hookVars, alive, toWorker, extractor, mode,
                   guideVectors, wpc, wmsg, saveVars, calls>>

\* ------------------------------------------------- the hook's message handlers
\* resolve(value) of call c: a promise settles once
Resolve(call, value) ==
    IF call.st = "pending" THEN [call EXCEPT !.st = "resolved", !.result = value] ELSE call

\* listeners that answer only the reply to their own query
ListenersById(i, m) ==
    [c \in Calls |->
        IF calls[i][c].listener /\ m.type = "RESULT" /\ m.query = calls[i][c].query
        THEN Resolve([calls[i][c] EXCEPT !.listener = FALSE, !.got = m.query], m.results)
        ELSE calls[i][c]]

\* variant A, the listener `handler` of every pending search() on a message m
ListenersA(i, m) ==
    [c \in Calls |->
        IF calls[i][c].listener /\ m.type = "RESULT"
        THEN Resolve([calls[i][c] EXCEPT !.listener = FALSE, !.got = m.query], m.results)
        ELSE calls[i][c]]

AnyListener(i) == \E c \in Calls : calls[i][c].listener

\* variant A, workerRef.current.onmessage and the search listeners on the next
\* message of the worker
HookOnMessageA(i) ==
    /\ variant = "A"
    /\ toHook[i] # <<>>
    /\ LET m == Head(toHook[i])
       IN /\ toHook' = [toHook EXCEPT ![i] = Tail(@)]
          /\ calls' = [calls EXCEPT ![i] = ListenersA(i, m)]
          /\ IF m.type = "VECTORS_GENERATED"
             THEN /\ savePc' = [savePc EXCEPT ![i] = "clear"]
                  /\ savePayload' = [savePayload EXCEPT ![i] = m.payload]
             ELSE UNCHANGED saveVars
          /\ fallbackTimeout' =
                [fallbackTimeout EXCEPT ![i] =
                    IF m.type = "STATUS" /\ @ = "armed" THEN "cleared" ELSE @]
          /\ IF m.type = "STATUS" /\ isMounted[i]
             THEN SetState(i, [isReady |-> TRUE, isLoading |-> FALSE,
                               isSearching |-> FALSE, searchMode |-> m.mode,
                               error |-> IF m.mode = "AI_READY" THEN Null ELSE "status"])
             ELSE IF m.type = "RESULT" /\ AnyListener(i)
             THEN SetState(i, [state[i] EXCEPT !.isSearching = FALSE])
             ELSE state' = state
    /\ UNCHANGED <<variant, genVars, dbVars, reloads, pc, isMounted, workerRef, alive,
                   existingVectors, toWorker, workerVars>>

\* VECTORS_GENERATED handler: await db.vectors.clear()
SaveClear(i) ==
    /\ savePc[i] = "clear"
    /\ vectors' = <<>>
    /\ savePc' = [savePc EXCEPT ![i] = "bulkPut"]
    /\ UNCHANGED <<variant, genVars, guidelines, reloads, hookVars, alive, toWorker, toHook,
                   workerVars, savePayload, calls>>

\* db.vectors.bulkPut(rows) on the ++id table: rows without an id get fresh keys
\* and are appended
BulkPutVectors(table, rows) == table \o rows

\* VECTORS_GENERATED handler: await db.vectors.bulkPut(payload)
SaveBulkPut(i) ==
    /\ savePc[i] = "bulkPut"
    /\ vectors' = BulkPutVectors(vectors, savePayload[i])
    /\ savePc' = [savePc EXCEPT ![i] = "done"]
    /\ UNCHANGED <<variant, genVars, guidelines, reloads, hookVars, alive, toWorker, toHook,
                   workerVars, savePayload, calls>>

\* a handler that answers a failed save by falling back to BASIC_MODE
SaveThrowsDegrades(i) ==
    /\ savePc[i] = "clear"
    /\ savePc' = [savePc EXCEPT ![i] = "saveFailed"]
    /\ SetState(i, [state[i] EXCEPT !.searchMode = "BASIC_MODE", !.error = "save"])
    /\ UNCHANGED <<variant, genVars, dbVars, reloads, pc, isMounted, workerRef, fallbackTimeout,
                   existingVectors, alive, toWorker, toHook, workerVars, savePayload,
                   calls>>

\* VECTORS_GENERATED handler: db.vectors.clear() rejects; the catch logs
SaveClearThrows(i) ==
    /\ savePc[i] = "clear"
    /\ savePc' = [savePc EXCEPT ![i] = "saveFailed"]
    /\ UNCHANGED <<variant, genVars, dbVars, reloads, hookVars, alive, toWorker, toHook,
                   workerVars, savePayload, calls>>

\* VECTORS_GENERATED handler: db.vectors.bulkPut(payload) rejects (quota, a row
\* that cannot be cloned); the rows put before the failing one may stay; the
\* catch logs
SaveBulkPutThrows(i) ==
    /\ savePc[i] = "bulkPut"
    /\ \E n \in 0..(Len(savePayload[i]) - 1) :
          vectors' = BulkPutVectors(vectors, SubSeq(savePayload[i], 1, n))
    /\ savePc' = [savePc EXCEPT ![i] = "saveFailed"]
    /\ UNCHANGED <<variant, genVars, guidelines, reloads, hookVars, alive, toWorker, toHook,
                   workerVars, savePayload, calls>>

\* ----------------------------------------------------------- search(), variant A
\* the first unused call slot
NextCall(i) == CHOOSE c \in Calls : calls[i][c].st = "idle" /\ \A d \in 1..(c - 1) : calls[i][d].st # "idle"

HasFreeCall(i) == \E c \in Calls : calls[i][c].st = "idle"

\* a guard that forgets readiness: if (!query.trim()) return []
SearchGuardNoReady(ready, q) == Trim(QueryText(q)) = <<>>

\* a guard that does not trim: if (!state.isReady || !query) return []
SearchGuardNoTrim(ready, q) == ~ready \/ QueryText(q) = <<>>

\* if (!state.isReady || !query.trim()) return []
SearchGuard(ready, q) == ~ready \/ Trim(QueryText(q)) = <<>>

\* search(query, topK) of the hook with the fallback timer
SearchA(i, q, k) ==
    /\ variant = "A"
    /\ isMounted[i]
    /\ HasFreeCall(i)
    /\ LET c == NextCall(i)
           call == [IdleCall EXCEPT !.query = q, !.topK = k, !.ready = state[i].isReady,
                                    !.modeAtCall = state[i].searchMode]
       IN IF SearchGuard(state[i].isReady, q)
          THEN /\ calls' = [calls EXCEPT ![i][c] = [call EXCEPT !.st = "resolved"]]
               /\ UNCHANGED <<state, toWorker>>
          ELSE IF workerRef[i] = Null
          THEN /\ calls' = [calls EXCEPT ![i][c] = [call EXCEPT !.st = "resolved"]]
               /\ SetState(i, [state[i] EXCEPT !.isSearching = FALSE])
               /\ UNCHANGED toWorker
          ELSE /\ calls' = [calls EXCEPT ![i][c] =
                              [call EXCEPT !.st = "pending", !.listener = TRUE,
                                           !.posted = TRUE, !.timer = "armed"]]
               /\ SetState(i, [state[i] EXCEPT !.isSearching = TRUE])
               /\ PostToWorker(i, [type |-> "SEARCH", query |-> q])
    /\ UNCHANGED <<variant, genVars, dbVars, reloads, pc, isMounted, workerRef, alive,
                   fallbackTimeout, existingVectors, toHook, workerVars, saveVars>>

\* a 10 s timer whose callback removes the listener and never resolves
SearchTimeoutNoResolve(i, c) ==
    /\ calls[i][c].timer = "armed"
    /\ calls' = [calls EXCEPT ![i][c] = [@ EXCEPT !.timer = "fired", !.listener = FALSE]]
    /\ SetState(i, [state[i] EXCEPT !.isSearching = FALSE])
    /\ UNCHANGED <<variant, genVars, dbVars, reloads, pc, isMounted, workerRef, alive,
                   fallbackTimeout, existingVectors, toWorker, toHook, workerVars, saveVars>>

\* the 10 s timer of call c fires: remove the listener, resolve([])
SearchTimeoutA(i, c) ==
    /\ calls[i][c].timer = "armed"
    /\ calls' = [calls EXCEPT ![i][c] =
                    Resolve([@ EXCEPT !.timer = "fired", !.listener = FALSE], <<>>)]
    /\ SetState(i, [state[i] EXCEPT !.isSearching = FALSE])
    /\ UNCHANGED <<variant, genVars, dbVars, reloads, pc, isMounted, workerRef, alive,
                   fallbackTimeout, existingVectors, toWorker, toHook, workerVars, saveVars>>

\* the page is reloaded: every hook, worker, timer and pending promise of the
\* session is gone, the stores stay
Reload ==
    /\ reloads < MaxReloads
    /\ reloads' = reloads + 1
    /\ pc' = [i \in Inst |-> "unmounted"]
    /\ state' = [i \in Inst |-> InitialState(variant)]
    /\ isMounted' = [i \in Inst |-> FALSE]
    /\ workerRef' = [i \in Inst |-> Null]
    /\ alive' = [i \in Inst |-> FALSE]
    /\ fallbackTimeout' = [i \in Inst |-> "unset"]
    /\ existingVectors' = [i \in Inst |-> <<>>]
    /\ toWorker' = [i \in Inst |-> <<>>]
    /\ toHook' = [i \in Inst |-> <<>>]
    /\ extractor' = [i \in Inst |-> Null]
    /\ mode' = [i \in Inst |-> "BASIC_MODE"]
    /\ guideVectors' = [i \in Inst |-> <<>>]
    /\ wpc' = [i \in Inst |-> "idle"]
    /\ wmsg' = [i \in Inst |-> NoMessage]
    /\ wsearch' = [i \in Inst |-> <<>>]
    /\ savePc' = [i \in Inst |-> "idle"]
    /\ savePayload' = [i \in Inst |-> <<>>]
    /\ calls' = [i \in Inst |-> [c \in Calls |-> IdleCall]]
    /\ genPc' = [i \in Inst |-> "idle"]
    /\ genDocs' = [i \in Inst |-> <<>>]
    /\ genIdx' = [i \in Inst |-> 0]
    /\ UNCHANGED <<variant, dbVars>>

\* ------------------------------------------- variant B: the guidelines-app
\* new Worker(...), onmessage, postMessage({type: 'INIT'}): no await in between
NewWorkerB(i) ==
    /\ variant = "B"
    /\ pc[i] = "newWorker"
    /\ workerRef' = [workerRef EXCEPT ![i] = "worker"]
    /\ alive' = [alive EXCEPT ![i] = TRUE]
    /\ toWorker' = [toWorker EXCEPT ![i] = Append(@, [type |-> "INIT", payload |-> <<>>])]
    /\ pc' = [pc EXCEPT ![i] = "done"]
    /\ UNCHANGED <<variant, genVars, dbVars, reloads, state, isMounted, fallbackTimeout,
                   existingVectors, toHook, workerVars, saveVars, calls>>

\* worker listener, INIT: runs to `await pipeline(...)`
WorkerReceiveInitB(i) ==
    /\ variant = "B"
    /\ alive[i]
    /\ toWorker[i] # <<>>
    /\ Head(toWorker[i]).type = "INIT"
    /\ toWorker' = [toWorker EXCEPT ![i] = Tail(@)]
    /\ wpc' = [wpc EXCEPT ![i] = "initModel"]
    /\ wmsg' = [wmsg EXCEPT ![i] = Head(toWorker[i])]
    /\ UNCHANGED <<variant, genVars, dbVars, reloads, hookVars, alive, toHook, extractor, mode,
                   guideVectors, wsearch, saveVars, calls>>

\* the pipeline loads: mode = 'AI_READY', STATUS AI_READY
InitModelOkB(i) ==
    /\ variant = "B"
    /\ alive[i]
    /\ wpc[i] = "initModel"
    /\ extractor' = [extractor EXCEPT ![i] = "model"]
    /\ mode' = [mode EXCEPT ![i] = "AI_READY"]
    /\ wpc' = [wpc EXCEPT ![i] = "done"]
    /\ PostToHook(i, << [type |-> "STATUS", mode |-> "AI_READY"] >>)
    /\ UNCHANGED <<variant, genVars, dbVars, reloads, hookVars, alive, toWorker, guideVectors,
                   wmsg, wsearch, saveVars, calls>>

\* the pipeline rejects: mode = 'BASIC_MODE', STATUS BASIC_MODE
InitModelFailsB(i) ==
    /\ variant = "B"
    /\ alive[i]
    /\ wpc[i] = "initModel"
    /\ mode' = [mode EXCEPT ![i] = "BASIC_MODE"]
    /\ wpc' = [wpc EXCEPT ![i] = "done"]
    /\ PostToHook(i, << [type |-> "STATUS", mode |-> "BASIC_MODE"] >>)
    /\ UNCHANGED <<variant, genVars, dbVars, reloads, hookVars, alive, toWorker, extractor,
                   guideVectors, wmsg, wsearch, saveVars, calls>>

\* a filter that lets every document through
KeywordFilterAll(documents, query) ==
    [n \in 1..Len(documents) |-> [item |-> documents[n]]]

\* documents.filter(doc => content.toLowerCase().includes(lowerQuery))
KeywordFilter(documents, query) ==
    LET lowerQuery == ToLower(QueryText(query))
        hit(id) == Includes(ToLower(Content(Doc(id))), lowerQuery)
    IN [n \in 1..Len(SelectSeq(documents, hit)) |->
           [item |-> SelectSeq(documents, hit)[n]]]

\* worker listener, SEARCH: vector branch runs to `await extractor(query)`; the
\* keyword branch answers at once (documents undefined: the filter throws and
\* the catch posts ERROR)
WorkerReceiveSearchB(i) ==
    /\ variant = "B"
    /\ alive[i]
    /\ toWorker[i] # <<>>
    /\ Head(toWorker[i]).type = "SEARCH"
    /\ toWorker' = [toWorker EXCEPT ![i] = Tail(@)]
    /\ LET m == Head(toWorker[i])
       IN IF mode[i] = "AI_READY" /\ extractor[i] # Null
          THEN /\ wsearch' = [wsearch EXCEPT ![i] = Append(@, m.query)]
               /\ toHook' = toHook
          ELSE /\ wsearch' = wsearch
               /\ IF m.hasDocuments
                  THEN PostToHook(i, << [type |-> "RESULT", vector |-> <<>>,
                                         results |-> KeywordFilter(m.documents, m.query),
                                         query |-> m.query] >>)
                  ELSE PostToHook(i, << [type |-> "ERROR", query |-> m.query] >>)
    /\ UNCHANGED <<variant, genVars, dbVars, reloads, hookVars, alive, extractor, mode,
                   guideVectors, wpc, wmsg, saveVars, calls>>

\* extractor(query) returns: RESULT with results = {vector: queryVector}
SearchEmbedDoneB(i) ==
    /\ variant = "B"
    /\ alive[i]
    /\ \E n \in 1..Len(wsearch[i]) :
          /\ wsearch' = [wsearch EXCEPT ![i] = Remove(@, n)]
          /\ PostToHook(i, << [type |-> "RESULT",
                               vector |-> extractorFn(QueryText(wsearch[i][n])),
                               results |-> <<>>, query |-> wsearch[i][n]] >>)
    /\ UNCHANGED <<variant, genVars, dbVars, reloads, hookVars, alive, toWorker, extractor, mode,
                   guideVectors, wpc, wmsg, saveVars, calls>>

\* extractor(query) rejects: the catch posts ERROR
SearchEmbedThrowsB(i) ==
    /\ variant = "B"
    /\ alive[i]
    /\ \E n \in 1..Len(wsearch[i]) :
          /\ wsearch' = [wsearch EXCEPT ![i] = Remove(@, n)]
          /\ PostToHook(i, << [type |-> "ERROR", query |-> wsearch[i][n]] >>)
    /\ UNCHANGED <<variant, genVars, dbVars, reloads, hookVars, alive, toWorker, extractor, mode,
                   guideVectors, wpc, wmsg, saveVars, calls>>

\* handleResult of call c on a RESULT: the vector branch goes on to
\* `await db.vectors.toArray()`, the other resolves with the results as sent
HandleResultB(call, m) ==
    IF ~call.listener THEN call
    ELSE IF call.modeAtCall = "AI_READY" /\ m.vector # <<>>
    THEN [call EXCEPT !.listener = FALSE, !.got = m.query, !.step = "toArray",
                      !.queryVector = m.vector]
    ELSE Resolve([call EXCEPT !.listener = FALSE, !.got = m.query], m.results)

\* a handleResult ran its else branch to the end: setState isSearching false
EndsSearchB(call, m) ==
    call.listener /\ ~(call.modeAtCall = "AI_READY" /\ m.vector # <<>>)

\* variant B, workerRef.current.onmessage and the handleResult listeners on the
\* next message of the worker
HookOnMessageB(i) ==
    /\ variant = "B"
    /\ toHook[i] # <<>>
    /\ LET m == Head(toHook[i])
           afterStatus ==
               IF m.type # "STATUS" THEN state[i]
               ELSE [state[i] EXCEPT !.isReady = TRUE, !.isLoading = FALSE,
                                     !.searchMode = m.mode,
                                     !.error = IF m.mode = "AI_READY" THEN Null
                                               ELSE "status"]
       IN /\ toHook' = [toHook EXCEPT ![i] = Tail(@)]
          /\ calls' = [calls EXCEPT ![i] =
                          [c \in Calls |-> IF m.type = "RESULT"
                                           THEN HandleResultB(calls[i][c], m)
                                           ELSE calls[i][c]]]
          /\ SetState(i, IF m.type = "RESULT"
                            /\ \E c \in Calls : EndsSearchB(calls[i][c], m)
                         THEN [afterStatus EXCEPT !.isSearching = FALSE]
                         ELSE afterStatus)
    /\ UNCHANGED <<variant, genVars, dbVars, reloads, pc, isMounted, workerRef, alive,
                   fallbackTimeout, existingVectors, toWorker, workerVars, saveVars>>

\* allVectors.map(v => ({id: v.guidelineId, score: sim})), the loop running over
\* v.vector
scored(allVectors, queryVector) ==
    [n \in 1..Len(allVectors) |->
        [id |-> allVectors[n].guidelineId,
         score |-> cosineSimilarity(allVectors[n].vector, queryVector)]]

\* handleResult: allVectors = await db.vectors.toArray(); sort; topIds; then
\* `await db.guidelines.bulkGet(topIds)`
RankB(i, c) ==
    /\ variant = "B"
    /\ calls[i][c].step = "toArray"
    /\ calls' = [calls EXCEPT ![i][c] =
                    [@ EXCEPT !.step = "bulkGet",
                              !.scored = SortDesc(scored(vectors, calls[i][c].queryVector))]]
    /\ UNCHANGED <<variant, genVars, dbVars, reloads, hookVars, alive, toWorker, toHook,
                   workerVars, saveVars>>

\* scored.find(s => s.id === id)?.score || 0
ZeroScore == [nan |-> FALSE, dot |-> 0, nn |-> 1]

FindScore(sc, id) ==
    LET hits == SelectSeq(sc, LAMBDA s : s.id = id)
    IN IF hits = <<>> \/ Head(hits).score.nan \/ Head(hits).score.dot = 0
       THEN ZeroScore ELSE Head(hits).score

\* guidelines.map(g => g ? {...g, score} : null).filter(Boolean).sort(...)
finalResults(sc, topK, docs) ==
    LET topIds == Slice(sc, topK)
        found == SelectSeq(topIds, LAMBDA s : \E n \in 1..Len(docs) : docs[n] = s.id)
    IN SortDesc([n \in 1..Len(found) |->
                    [item |-> found[n].id, score |-> FindScore(sc, found[n].id)]])

\* handleResult: guidelines = await db.guidelines.bulkGet(topIds); resolve
BulkGetB(i, c) ==
    /\ variant = "B"
    /\ calls[i][c].step = "bulkGet"
    /\ calls' = [calls EXCEPT ![i][c] =
                    Resolve([@ EXCEPT !.step = "none"],
                            finalResults(calls[i][c].scored, calls[i][c].topK, guidelines))]
    /\ SetState(i, [state[i] EXCEPT !.isSearching = FALSE])
    /\ UNCHANGED <<variant, genVars, dbVars, reloads, pc, isMounted, workerRef, alive,
                   fallbackTimeout, existingVectors, toWorker, toHook, workerVars, saveVars>>

\* search(query, topK) of the guidelines-app hook, up to its first await
SearchB(i, q, k) ==
    /\ variant = "B"
    /\ isMounted[i]
    /\ HasFreeCall(i)
    /\ LET c == NextCall(i)
           call == [IdleCall EXCEPT !.query = q, !.topK = k, !.ready = state[i].isReady,
                                    !.modeAtCall = state[i].searchMode]
       IN IF SearchGuard(state[i].isReady, q)
          THEN /\ calls' = [calls EXCEPT ![i][c] = [call EXCEPT !.st = "resolved"]]
               /\ UNCHANGED <<state, toWorker>>
          ELSE IF workerRef[i] = Null
          THEN /\ calls' = [calls EXCEPT ![i][c] = [call EXCEPT !.st = "resolved"]]
               /\ SetState(i, [state[i] EXCEPT !.isSearching = TRUE])
               /\ UNCHANGED toWorker
          ELSE IF state[i].searchMode = "AI_READY"
          THEN /\ calls' = [calls EXCEPT ![i][c] =
                              [call EXCEPT !.st = "pending", !.listener = TRUE,
                                           !.posted = TRUE]]
               /\ SetState(i, [state[i] EXCEPT !.isSearching = TRUE])
               /\ PostToWorker(i, [type |-> "SEARCH", query |-> q,
                                   hasDocuments |-> FALSE, documents |-> <<>>])
          ELSE /\ calls' = [calls EXCEPT ![i][c] =
                              [call EXCEPT !.st = "pending", !.listener = TRUE,
                                           !.step = "allDocs"]]
               /\ SetState(i, [state[i] EXCEPT !.isSearching = TRUE])
               /\ UNCHANGED toWorker
    /\ UNCHANGED <<variant, genVars, dbVars, reloads, pc, isMounted, workerRef, alive,
                   fallbackTimeout, existingVectors, toHook, workerVars, saveVars>>

\* search(), BASIC_MODE: allDocs = await db.guidelines.toArray(); post SEARCH
SearchPostDocsB(i, c) ==
    /\ variant = "B"
    /\ calls[i][c].step = "allDocs"
    /\ calls' = [calls EXCEPT ![i][c] = [@ EXCEPT !.step = "none", !.posted = TRUE]]
    /\ PostToWorker(i, [type |-> "SEARCH", query |-> calls[i][c].query,
                        hasDocuments |-> TRUE, documents |-> guidelines])
    /\ UNCHANGED <<variant, genVars, dbVars, reloads, hookVars, alive, toHook, workerVars,
                   saveVars>>

\* --------------------------------- variant C: the frontend hook useJananiSearch
\* useEffect body: new Worker(...), onmessage, initializeWorker() up to
\* `await db.vectors.count()`
MountC(i) ==
    /\ variant = "C"
    /\ pc[i] = "unmounted"
    /\ workerRef' = [workerRef EXCEPT ![i] = "worker"]
    /\ alive' = [alive EXCEPT ![i] = TRUE]
    /\ pc' = [pc EXCEPT ![i] = "vecCount"]
    /\ UNCHANGED <<variant, genVars, dbVars, reloads, state, isMounted, fallbackTimeout,
                   existingVectors, toWorker, toHook, workerVars, saveVars, calls>>

\* existingVectorCount = await db.vectors.count(): warm start, or the corpus fetch
VecCountC(i) ==
    /\ variant = "C"
    /\ pc[i] = "vecCount"
    /\ pc' = [pc EXCEPT ![i] = IF Len(vectors) > 0 THEN "warmVectors" ELSE "fetch"]
    /\ UNCHANGED <<variant, genVars, dbVars, reloads, state, isMounted, workerRef, alive,
                   fallbackTimeout, existingVectors, toWorker, toHook, workerVars,
                   saveVars, calls>>

\* no vectors: fetch('/data/who_guidelines.json'), response.json(), post INIT with
\* the fetched corpus (the Document Store is not read)
FetchCorpusC(i) ==
    /\ variant = "C"
    /\ pc[i] = "fetch"
    /\ PostToWorker(i, [type |-> "INIT", payload |-> DocIds])
    /\ pc' = [pc EXCEPT ![i] = "done"]
    /\ UNCHANGED <<variant, genVars, dbVars, reloads, state, isMounted, workerRef, alive,
                   fallbackTimeout, existingVectors, toHook, workerVars, saveVars, calls>>

\* an await of the try block rejects (a store read, the fetch, response.json()):
\* control enters the catch block, which starts a corpus fetch of its own
InitThrowsC(i) ==
    /\ variant = "C"
    /\ pc[i] \in {"vecCount", "warmVectors", "warmDocs", "fetch"}
    /\ pc' = [pc EXCEPT ![i] = "catchFetch"]
    /\ UNCHANGED <<variant, genVars, dbVars, reloads, state, isMounted, workerRef, alive,
                   fallbackTimeout, existingVectors, toWorker, toHook, workerVars,
                   saveVars, calls>>

\* catch block: the fetch and response.json() succeed, INIT is posted
CatchFetchOkC(i) ==
    /\ variant = "C"
    /\ pc[i] = "catchFetch"
    /\ PostToWorker(i, [type |-> "INIT", payload |-> DocIds])
    /\ pc' = [pc EXCEPT ![i] = "retried"]
    /\ UNCHANGED <<variant, genVars, dbVars, reloads, state, isMounted, workerRef, alive,
                   fallbackTimeout, existingVectors, toHook, workerVars, saveVars, calls>>

\* catch block: the fetch or response.json() rejects; nothing catches it and the
\* promise of initializeWorker() is rejected
CatchFetchThrowsC(i) ==
    /\ variant = "C"
    /\ pc[i] = "catchFetch"
    /\ pc' = [pc EXCEPT ![i] = "rejected"]
    /\ UNCHANGED <<variant, genVars, dbVars, reloads, state, isMounted, workerRef, alive,
                   fallbackTimeout, existingVectors, toWorker, toHook, workerVars,
                   saveVars, calls>>

\* the effect's cleanup: workerRef.current?.terminate()
UnmountC(i) ==
    /\ variant = "C"
    /\ alive[i]
    /\ alive' = [alive EXCEPT ![i] = FALSE]
    /\ toWorker' = [toWorker EXCEPT ![i] = <<>>]
    /\ toHook' = [toHook EXCEPT ![i] = <<>>]
    /\ UNCHANGED <<variant, genVars, dbVars, reloads, hookVars, workerVars, saveVars, calls>>

\* worker, INIT or LOAD_VECTORS: try { extractor = await pipeline(...)
WorkerReceiveInitC(i) ==
    /\ variant = "C"
    /\ alive[i]
    /\ toWorker[i] # <<>>
    /\ Head(toWorker[i]).type \in {"INIT", "LOAD_VECTORS"}
    /\ toWorker' = [toWorker EXCEPT ![i] = Tail(@)]
    /\ wpc' = [wpc EXCEPT ![i] = "initModel"]
    /\ wmsg' = [wmsg EXCEPT ![i] = Head(toWorker[i])]
    /\ UNCHANGED <<variant, genVars, dbVars, reloads, hookVars, alive, toHook, extractor, mode,
                   guideVectors, wsearch, saveVars, calls>>

\* pipeline(...) rejects: the catch posts STATUS BASIC_MODE
InitModelFailsC(i) ==
    /\ variant = "C"
    /\ alive[i]
    /\ wpc[i] = "initModel"
    /\ wpc' = [wpc EXCEPT ![i] = "done"]
    /\ PostToHook(i, << [type |-> "STATUS", mode |-> "BASIC_MODE"] >>)
    /\ UNCHANGED <<variant, genVars, dbVars, reloads, hookVars, alive, toWorker, extractor, mode,
                   guideVectors, wmsg, wsearch, saveVars, calls>>

\* pipeline(...) resolves: LOAD_VECTORS takes the vectors and reports AI_READY;
\* INIT empties guideVectors and enters the loop (an empty corpus posts at once)
InitModelOkC(i) ==
    /\ variant = "C"
    /\ alive[i]
    /\ wpc[i] = "initModel"
    /\ extractor' = [extractor EXCEPT ![i] = "model"]
    /\ IF wmsg[i].type = "LOAD_VECTORS"
       THEN /\ guideVectors' = [guideVectors EXCEPT ![i] = wmsg[i].payload]
            /\ wpc' = [wpc EXCEPT ![i] = "done"]
            /\ PostToHook(i, << [type |-> "STATUS", mode |-> "AI_READY"] >>)
       ELSE /\ guideVectors' = [guideVectors EXCEPT ![i] = <<>>]
            /\ IF Len(wmsg[i].payload) > 0
               THEN /\ wpc' = [wpc EXCEPT ![i] = "generate"]
                    /\ toHook' = toHook
               ELSE /\ wpc' = [wpc EXCEPT ![i] = "done"]
                    /\ PostToHook(i, << [type |-> "VECTORS_GENERATED", payload |-> <<>>],
                                        [type |-> "STATUS", mode |-> "AI_READY"] >>)
    /\ UNCHANGED <<variant, genVars, dbVars, reloads, hookVars, alive, toWorker, mode, wmsg,
                   wsearch, saveVars, calls>>

\* one turn of the INIT loop; after the last guideline VECTORS_GENERATED and
\* STATUS AI_READY are posted
GenerateStepC(i) ==
    /\ variant = "C"
    /\ alive[i]
    /\ wpc[i] = "generate"
    /\ LET item == wmsg[i].payload[Len(guideVectors[i]) + 1]
           pushed == Append(guideVectors[i], VectorOf(item))
       IN /\ guideVectors' = [guideVectors EXCEPT ![i] = pushed]
          /\ IF Len(pushed) = Len(wmsg[i].payload)
             THEN /\ wpc' = [wpc EXCEPT ![i] = "done"]
                  /\ PostToHook(i, << [type |-> "VECTORS_GENERATED", payload |-> pushed],
                                      [type |-> "STATUS", mode |-> "AI_READY"] >>)
             ELSE /\ wpc' = wpc
                  /\ toHook' = toHook
    /\ UNCHANGED <<variant, genVars, dbVars, reloads, hookVars, alive, toWorker, extractor, mode,
                   wmsg, wsearch, saveVars, calls>>

\* extractor(content) rejects inside the INIT loop: the catch posts STATUS
\* BASIC_MODE; the vectors pushed so far stay in guideVectors
GenerateThrowsC(i) ==
    /\ variant = "C"
    /\ alive[i]
    /\ wpc[i] = "generate"
    /\ wpc' = [wpc EXCEPT ![i] = "done"]
    /\ PostToHook(i, << [type |-> "STATUS", mode |-> "BASIC_MODE"] >>)
    /\ UNCHANGED <<variant, genVars, dbVars, reloads, hookVars, alive, toWorker, extractor, mode,
                   guideVectors, wmsg, wsearch, saveVars, calls>>

\* worker, SEARCH: with an extractor both branches run to `await
\* extractor(query)`; without one the hook sent no documents and ERROR is posted
WorkerReceiveSearchC(i) ==
    /\ variant = "C"
    /\ alive[i]
    /\ toWorker[i] # <<>>
    /\ Head(toWorker[i]).type = "SEARCH"
    /\ toWorker' = [toWorker EXCEPT ![i] = Tail(@)]
    /\ IF extractor[i] # Null
       THEN /\ wsearch' = [wsearch EXCEPT ![i] =
                              Append(@, [query |-> Head(toWorker[i]).query,
                                         ranked |-> Len(guideVectors[i]) > 0])]
            /\ toHook' = toHook
       ELSE /\ wsearch' = wsearch
            /\ PostToHook(i, << [type |-> "ERROR", query |-> Head(toWorker[i]).query] >>)
    /\ UNCHANGED <<variant, genVars, dbVars, reloads, hookVars, alive, extractor, mode,
                   guideVectors, wpc, wmsg, saveVars, calls>>

\* extractor(query) returns: the vector branch posts RESULTS with the ranking of
\* the vectors in memory now, the other branch posts RESULT with the query vector
SearchEmbedDoneC(i) ==
    /\ variant = "C"
    /\ alive[i]
    /\ \E n \in 1..Len(wsearch[i]) :
          LET queryVector == extractorFn(QueryText(wsearch[i][n].query))
          IN /\ wsearch' = [wsearch EXCEPT ![i] = Remove(@, n)]
             /\ IF wsearch[i][n].ranked
                THEN PostToHook(i, << [type |-> "RESULTS",
                                       payload |-> topResults(queryVector, guideVectors[i]),
                                       query |-> wsearch[i][n].query] >>)
                ELSE PostToHook(i, << [type |-> "RESULT", vector |-> queryVector,
                                       query |-> wsearch[i][n].query] >>)
    /\ UNCHANGED <<variant, genVars, dbVars, reloads, hookVars, alive, toWorker, extractor, mode,
                   guideVectors, wpc, wmsg, saveVars, calls>>

\* extractor(query) rejects: the catch posts ERROR
SearchEmbedThrowsC(i) ==
    /\ variant = "C"
    /\ alive[i]
    /\ \E n \in 1..Len(wsearch[i]) :
          /\ wsearch' = [wsearch EXCEPT ![i] = Remove(@, n)]
          /\ PostToHook(i, << [type |-> "ERROR", query |-> wsearch[i][n].query] >>)
    /\ UNCHANGED <<variant, genVars, dbVars, reloads, hookVars, alive, toWorker, extractor, mode,
                   guideVectors, wpc, wmsg, saveVars, calls>>

\* workerRef.current.onmessage on the next message of the worker:
\* VECTORS_GENERATED starts the save, STATUS sets the badge, RESULTS the results
HookOnMessageC(i) ==
    /\ variant = "C"
    /\ toHook[i] # <<>>
    /\ LET m == Head(toHook[i])
       IN /\ toHook' = [toHook EXCEPT ![i] = Tail(@)]
          /\ IF m.type = "VECTORS_GENERATED"
             THEN /\ savePc' = [savePc EXCEPT ![i] = "clear"]
                  /\ savePayload' = [savePayload EXCEPT ![i] = m.payload]
             ELSE UNCHANGED saveVars
          /\ IF m.type = "STATUS"
             THEN SetState(i, [state[i] EXCEPT !.searchMode =
                                  IF m.mode = "AI_READY" THEN "AI" ELSE "BASIC"])
             ELSE IF m.type = "RESULTS"
             THEN SetState(i, [state[i] EXCEPT !.results = m.payload])
             ELSE state' = state
    /\ UNCHANGED <<variant, genVars, dbVars, reloads, pc, isMounted, workerRef, alive,
                   fallbackTimeout, existingVectors, toWorker, workerVars, calls>>

\* search(query): workerRef.current?.postMessage({type: 'SEARCH', payload: {query}});
\* the call is logged in the next call slot
SearchC(i, q) ==
    /\ variant = "C"
    /\ workerRef[i] # Null
    /\ HasFreeCall(i)
    /\ calls' = [calls EXCEPT ![i][NextCall(i)] =
                    [IdleCall EXCEPT !.st = "resolved", !.query = q, !.posted = TRUE,
                                     !.modeAtCall = state[i].searchMode]]
    /\ PostToWorker(i, [type |-> "SEARCH", query |-> q])
    /\ UNCHANGED <<variant, genVars, dbVars, reloads, hookVars, alive, toHook, workerVars, saveVars>>

\* ------------------------------------------------- generateAllEmbeddings
\* everything generateAllEmbeddings leaves alone
notGen == <<variant, guidelines, reloads, hookVars, alive, toWorker, toHook, workerVars,
            saveVars, calls>>

\* `${guideline.title}. ${guideline.text}. ${guideline.tags.join(', ')}`
textToEmbed(d) == d.title \o <<".", " ">> \o d.text \o <<".", " ">> \o Join(d.tags, <<",", " ">>)

\* a caller calls generateAllEmbeddings(embeddingFn): runs to
\* `await db.vectors.count()`
GenCall(i) ==
    /\ genPc[i] = "idle"
    /\ genPc' = [genPc EXCEPT ![i] = "count"]
    /\ UNCHANGED <<notGen, vectors, genDocs, genIdx>>

\* existingVectors = await db.vectors.count(); return when > 0
GenCount(i) ==
    /\ genPc[i] = "count"
    /\ genPc' = [genPc EXCEPT ![i] = IF Len(vectors) > 0 THEN "returned" ELSE "docs"]
    /\ UNCHANGED <<notGen, vectors, genDocs, genIdx>>

\* the loop goes to guideline n of docs, or the function returns after the last
GenGoTo(i, docs, n) ==
    /\ genIdx' = [genIdx EXCEPT ![i] = n]
    /\ genPc' = [genPc EXCEPT ![i] = IF n > Len(docs) THEN "returned" ELSE "embed"]

\* guidelines = await db.guidelines.toArray(); the loop starts
GenDocs(i) ==
    /\ genPc[i] = "docs"
    /\ genDocs' = [genDocs EXCEPT ![i] = guidelines]
    /\ GenGoTo(i, guidelines, 1)
    /\ UNCHANGED <<notGen, vectors>>

\* vector = await embeddingFn(textToEmbed) resolves
GenEmbedOk(i) ==
    /\ genPc[i] = "embed"
    /\ genPc' = [genPc EXCEPT ![i] = "add"]
    /\ UNCHANGED <<notGen, vectors, genDocs, genIdx>>

\* embeddingFn(textToEmbed) rejects: the catch logs, the loop goes on
GenEmbedFails(i) ==
    /\ genPc[i] = "embed"
    /\ GenGoTo(i, genDocs[i], genIdx[i] + 1)
    /\ UNCHANGED <<notGen, vectors, genDocs>>

\* await db.vectors.add({guidelineId, vector}): a new row with a fresh key
GenAdd(i) ==
    /\ genPc[i] = "add"
    /\ LET id == genDocs[i][genIdx[i]]
       IN vectors' = Append(vectors, [guidelineId |-> id,
                                      vector |-> extractorFn(textToEmbed(Doc(id)))])
    /\ GenGoTo(i, genDocs[i], genIdx[i] + 1)
    /\ UNCHANGED <<notGen, genDocs>>

\* db.vectors.add(...) rejects: the catch logs, the loop goes on
GenAddFails(i) ==
    /\ genPc[i] = "add"
    /\ GenGoTo(i, genDocs[i], genIdx[i] + 1)
    /\ UNCHANGED <<notGen, vectors, genDocs>>

\* ------------------------------------------------------------ specifications
TopKs == 1..MaxTopK \cup {WorkerTopK}

\* the only search() of a session
FirstSearchA(i, q, k) == calls[i][1].st = "idle" /\ SearchA(i, q, k)

FirstSearchB(i, q, k) == calls[i][1].st = "idle" /\ SearchB(i, q, k)

\* one hook of variant A with its worker
NextA ==
    \/ Mount(1) \/ SeedCount(1) \/ SeedFetchOk(1) \/ SeedFetchFails(1) \/ SeedPut(1)
    \/ SeedDbThrows(1) \/ VectorsReadThrows(1)
    \/ SaveClearThrows(1) \/ SaveBulkPutThrows(1)
    \/ NewWorkerA(1) \/ NewWorkerThrows(1) \/ VecCount(1) \/ WarmVectors(1)
    \/ WarmDocs(1) \/ ColdDocs(1) \/ FallbackTimeoutFires(1) \/ Unmount(1)
    \/ WorkerOnError(1) \/ WorkerReceiveInitA(1) \/ InitModelFailsA(1)
    \/ InitModelOkA(1) \/ GenerateStep(1) \/ GenerateThrows(1)
    \/ WorkerReceiveSearchA(1) \/ SearchEmbedDoneA(1) \/ SearchEmbedThrowsA(1)
    \/ HookOnMessageA(1) \/ SaveClear(1) \/ SaveBulkPut(1)
    \/ \E q \in QueriesA, k \in TopKs : FirstSearchA(1, q, k)
    \/ \E c \in Calls : SearchTimeoutA(1, c)

InitA ==
    /\ SessionInit("A")
    /\ \E s \in StoreStates : guidelines = s[1] /\ vectors = s[2]

SpecA == InitA /\ [][NextA]_vars

\* the guidelines-app hook with its worker
NextB ==
    \/ Mount(1) \/ SeedCount(1) \/ SeedFetchOk(1) \/ SeedFetchFails(1) \/ SeedPut(1)
    \/ SeedDbThrows(1)
    \/ NewWorkerThrows(1) \/ Unmount(1)
    \/ NewWorkerB(1) \/ WorkerReceiveInitB(1) \/ InitModelOkB(1)
    \/ InitModelFailsB(1) \/ WorkerReceiveSearchB(1) \/ SearchEmbedDoneB(1)
    \/ SearchEmbedThrowsB(1) \/ HookOnMessageB(1)
    \/ \E q \in Queries, k \in TopKs : FirstSearchB(1, q, k)
    \/ \E c \in Calls : SearchPostDocsB(1, c) \/ RankB(1, c) \/ BulkGetB(1, c)

InitB ==
    /\ SessionInit("B")
    /\ \E s \in StoreStates : guidelines = s[1] /\ vectors = s[2]

SpecB == InitB /\ [][NextB]_vars

\* either pair
Init == InitA \/ InitB

Next == NextA \/ NextB

Spec == Init /\ [][Next]_vars

\* One hook of variant A, reloaded up to MaxReloads times on a profile that
\* starts fresh; no searches.
NextReload ==
    \/ Mount(1) \/ SeedCount(1) \/ SeedFetchOk(1) \/ SeedFetchFails(1) \/ SeedPut(1)
    \/ NewWorkerA(1) \/ NewWorkerThrows(1) \/ VecCount(1) \/ WarmVectors(1)
    \/ WarmDocs(1) \/ ColdDocs(1) \/ FallbackTimeoutFires(1) \/ Unmount(1)
    \/ WorkerOnError(1) \/ WorkerReceiveInitA(1) \/ InitModelFailsA(1)
    \/ InitModelOkA(1) \/ GenerateStep(1) \/ GenerateThrows(1)
    \/ HookOnMessageA(1) \/ SaveClear(1) \/ SaveBulkPut(1)
    \/ Reload

InitFresh ==
    /\ SessionInit("A")
    /\ guidelines = <<>>
    /\ vectors = <<>>

SpecReload == InitFresh /\ [][NextReload]_vars

\* NumInst hooks of variant A on the same stores at once; no searches.
NextBoot ==
    \E i \in Inst :
        \/ Mount(i) \/ SeedCount(i) \/ SeedFetchOk(i) \/ SeedFetchFails(i) \/ SeedPut(i)
        \/ NewWorkerA(i) \/ NewWorkerThrows(i) \/ VecCount(i) \/ WarmVectors(i)
        \/ WarmDocs(i) \/ ColdDocs(i) \/ FallbackTimeoutFires(i) \/ Unmount(i)
        \/ WorkerOnError(i) \/ WorkerReceiveInitA(i) \/ InitModelFailsA(i)
        \/ InitModelOkA(i) \/ GenerateStep(i) \/ GenerateThrows(i)
        \/ HookOnMessageA(i) \/ SaveClear(i) \/ SaveBulkPut(i)

SpecBoot == InitA /\ [][NextBoot]_vars

\* Either hook with its worker on a store an earlier session seeded and filled
\* with vectors (a warm start), the caller making up to MaxCalls searches with
\* the default topK, one possibly before the other has resolved.
QueriesPair == {"headache", "papaya"}

NextPair ==
    \/ Mount(1) \/ SeedCount(1)
    \/ NewWorkerA(1) \/ NewWorkerThrows(1) \/ VecCount(1) \/ WarmVectors(1)
    \/ WarmDocs(1) \/ FallbackTimeoutFires(1) \/ Unmount(1)
    \/ WorkerReceiveInitA(1) \/ InitModelFailsA(1) \/ InitModelOkA(1)
    \/ WorkerReceiveSearchA(1) \/ SearchEmbedDoneA(1) \/ SearchEmbedThrowsA(1)
    \/ HookOnMessageA(1)
    \/ \E q \in QueriesPair : SearchA(1, q, WorkerTopK)
    \/ \E c \in Calls : SearchTimeoutA(1, c)
    \/ NewWorkerB(1) \/ WorkerReceiveInitB(1) \/ InitModelOkB(1)
    \/ InitModelFailsB(1) \/ WorkerReceiveSearchB(1) \/ SearchEmbedDoneB(1)
    \/ SearchEmbedThrowsB(1) \/ HookOnMessageB(1)
    \/ \E q \in QueriesPair : SearchB(1, q, WorkerTopK)
    \/ \E c \in Calls : SearchPostDocsB(1, c) \/ RankB(1, c) \/ BulkGetB(1, c)

InitPair ==
    /\ \E v \in {"A", "B"} : SessionInit(v)
    /\ guidelines = DocIds
    /\ vectors = AllVectors

SpecPair == InitPair /\ [][NextPair]_vars

\* seedDatabase alone, called by NumInst hooks and again after reloads, on a
\* store that is empty, holds an older and smaller corpus, or the bundled one
StaleDocIds == <<"a">>

NextSeed ==
    \/ \E i \in Inst :
          \/ Mount(i) \/ SeedCount(i) \/ SeedFetchOk(i) \/ SeedFetchFails(i)
          \/ SeedPut(i) \/ SeedDbThrows(i)
    \/ Reload

InitSeed ==
    /\ SessionInit("A")
    /\ guidelines \in {<<>>, StaleDocIds, DocIds}
    /\ vectors = <<>>

SpecSeed == InitSeed /\ [][NextSeed]_vars

\* The hook with the fallback timer on a profile whose vectors an earlier version
\* of the application wrote with another embedding model: vectors of one or of
\* three components, the session's model producing two.
oldExtractorFn(dim, text) ==
    IF dim = 1 THEN <<1 + CountChar(text, "e")>>
    ELSE <<1 + CountChar(text, "e"), 1 + CountChar(text, "a"), 1 + CountChar(text, "i")>>

OldVectors(dim) ==
    [n \in 1..Len(DocIds) |->
        [guidelineId |-> DocIds[n], vector |-> oldExtractorFn(dim, Content(Doc(DocIds[n]))),
         item |-> DocIds[n]]]

NextDim ==
    \/ Mount(1) \/ SeedCount(1) \/ NewWorkerA(1) \/ VecCount(1) \/ WarmVectors(1)
    \/ WarmDocs(1) \/ FallbackTimeoutFires(1) \/ Unmount(1)
    \/ WorkerReceiveInitA(1) \/ InitModelFailsA(1) \/ InitModelOkA(1)
    \/ WorkerReceiveSearchA(1) \/ SearchEmbedDoneA(1) \/ SearchEmbedThrowsA(1)
    \/ HookOnMessageA(1)
    \/ \E q \in QueriesPair : FirstSearchA(1, q, WorkerTopK)
    \/ \E c \in Calls : SearchTimeoutA(1, c)

InitDim ==
    /\ SessionInit("A")
    /\ guidelines = DocIds
    /\ vectors \in {OldVectors(1), OldVectors(3)}

SpecDim == InitDim /\ [][NextDim]_vars

\* generateAllEmbeddings called by NumInst callers, one after the other or at
\* once, on a seeded store without vectors.
NextGen ==
    \E i \in Inst :
        \/ GenCall(i) \/ GenCount(i) \/ GenDocs(i) \/ GenEmbedOk(i) \/ GenEmbedFails(i)
        \/ GenAdd(i) \/ GenAddFails(i)

InitGen ==
    /\ SessionInit("A")
    /\ guidelines = DocIds
    /\ vectors = <<>>

SpecGen == InitGen /\ [][NextGen]_vars

\* The frontend hook useJananiSearch with its worker, on a profile that starts
\* fresh or seeded and is reloaded up to MaxReloads times.
NextC ==
    \/ MountC(1) \/ VecCountC(1) \/ WarmVectors(1) \/ WarmDocs(1) \/ FetchCorpusC(1)
    \/ InitThrowsC(1) \/ CatchFetchOkC(1) \/ CatchFetchThrowsC(1) \/ UnmountC(1)
    \/ WorkerReceiveInitC(1) \/ InitModelFailsC(1) \/ InitModelOkC(1)
    \/ GenerateStepC(1) \/ GenerateThrowsC(1)
    \/ WorkerReceiveSearchC(1) \/ SearchEmbedDoneC(1) \/ SearchEmbedThrowsC(1)
    \/ HookOnMessageC(1) \/ SaveClear(1) \/ SaveBulkPut(1)
    \/ SaveClearThrows(1) \/ SaveBulkPutThrows(1)
    \/ \E q \in QueriesA : calls[1][1].st = "idle" /\ SearchC(1, q)
    \/ Reload

InitC ==
    /\ SessionInit("C")
    /\ guidelines \in {<<>>, DocIds}
    /\ vectors = <<>>

SpecC == InitC /\ [][NextC]_vars

\* A timer that is armed fires while the page lives: the browser's event loop
\* runs every due setTimeout callback.  Nothing is assumed of the worker.
LiveSpecA ==
    /\ InitA
    /\ [][NextA]_vars
    /\ WF_vars(FallbackTimeoutFires(1))
    /\ \A c \in Calls : WF_vars(SearchTimeoutA(1, c))

\* The guidelines-app hook under the event loop's scheduling: a continuation of
\* the hook whose await has settled runs, a message the worker has posted is
\* dispatched, the worker handles a SEARCH it was sent and its extractor call
\* settles one way or the other.  The hook sets no timer.  Nothing is assumed of
\* the model load.
LiveSpecB ==
    /\ InitB
    /\ [][NextB]_vars
    /\ WF_vars(HookOnMessageB(1))
    /\ WF_vars(WorkerReceiveSearchB(1))
    /\ WF_vars(SearchEmbedDoneB(1) \/ SearchEmbedThrowsB(1))
    /\ \A c \in Calls :
          WF_vars(SearchPostDocsB(1, c)) /\ WF_vars(RankB(1, c)) /\ WF_vars(BulkGetB(1, c))

\* ------------------------------------------------------------------ claims
HasType(queue, t) == \E n \in 1..Len(queue) : queue[n].type = t

IsBlank(q) == Trim(QueryText(q)) = <<>>

\* C1: in the hook with the fallback timer, once the hook has posted its INIT or
\* LOAD_VECTORS request and stays mounted, it eventually is ready in BASIC_MODE
\* unless the worker answered with AI_READY; the firing timer itself makes a
\* mounted hook ready in BASIC_MODE.
C1_FallbackMakesReady ==
    /\ (pc[1] = "done" /\ isMounted[1])
          ~> \/ ~isMounted[1]
             \/ state[1].isReady /\ state[1].searchMode = "BASIC_MODE"
             \/ state[1].searchMode = "AI_READY"
    /\ [][(fallbackTimeout[1] = "armed" /\ fallbackTimeout'[1] = "fired" /\ isMounted[1])
            => (state'[1].isReady /\ state'[1].searchMode = "BASIC_MODE")]_vars

\* the timer fired on a mounted hook whose worker stayed silent
C1_Witness ==
    /\ pc[1] = "done" /\ isMounted[1]
    /\ fallbackTimeout[1] = "fired"
    /\ state[1].isReady /\ state[1].searchMode = "BASIC_MODE"
    /\ state[1].error = "timeout"
    /\ toHook[1] = <<>>

\* C2: every search() promise of the hook with the fallback timer that is
\* pending eventually resolves, and a promise resolved without a RESULT carries
\* the empty list.
C2_SearchResolves ==
    /\ \A c \in Calls : (calls[1][c].st = "pending") ~> (calls[1][c].st = "resolved")
    /\ [](\A c \in Calls :
            (calls[1][c].st = "resolved" /\ calls[1][c].got = Null)
               => calls[1][c].result = <<>>)

\* a call that posted SEARCH was resolved by its timer, no RESULT having come
C2_Witness ==
    \E c \in Calls :
        /\ calls[1][c].posted
        /\ calls[1][c].st = "resolved"
        /\ calls[1][c].timer = "fired"
        /\ calls[1][c].got = Null
        /\ alive[1]

\* C3: the mode never reverts: a ready hook in BASIC_MODE stays in BASIC_MODE
\* whatever the worker sends later, and a hook in AI_READY stays in AI_READY.
C3_ModeNeverReverts ==
    [][/\ (state[1].isReady /\ state[1].searchMode = "BASIC_MODE")
             => state'[1].searchMode = "BASIC_MODE"
       /\ state[1].searchMode = "AI_READY" => state'[1].searchMode = "AI_READY"]_vars

\* C4: a search() called while isReady is false resolves at once with the empty
\* list and posts nothing: no SEARCH reaches the worker, no listener, no timer.
C4_NotReadyReturnsEmpty ==
    \A i \in Inst :
        /\ \A c \in Calls :
              (calls[i][c].st # "idle" /\ ~calls[i][c].ready)
                 => /\ calls[i][c].st = "resolved"
                    /\ calls[i][c].result = <<>>
                    /\ ~calls[i][c].posted
                    /\ ~calls[i][c].listener
                    /\ calls[i][c].timer = "unset"
        /\ (\A c \in Calls : calls[i][c].st = "idle" \/ ~calls[i][c].ready)
              => /\ ~HasType(toWorker[i], "SEARCH")
                 /\ wsearch[i] = <<>>

\* search("headache") on a hook that has its worker and is not ready yet
C4_Witness ==
    \E c \in Calls :
        /\ calls[1][c].st = "resolved"
        /\ ~calls[1][c].ready
        /\ ~IsBlank(calls[1][c].query)
        /\ workerRef[1] # Null
        /\ alive[1]

\* C5: a search() with an empty or whitespace-only query resolves at once with
\* the empty list in every mode: no SEARCH is posted, no listener, no timer.
C5_BlankQueryReturnsEmpty ==
    \A i \in Inst :
        /\ \A c \in Calls :
              (calls[i][c].st # "idle" /\ IsBlank(calls[i][c].query))
                 => /\ calls[i][c].st = "resolved"
                    /\ calls[i][c].result = <<>>
                    /\ ~calls[i][c].posted
                    /\ ~calls[i][c].listener
                    /\ calls[i][c].timer = "unset"
        /\ (\A c \in Calls : calls[i][c].st = "idle" \/ IsBlank(calls[i][c].query))
              => /\ ~HasType(toWorker[i], "SEARCH")
                 /\ wsearch[i] = <<>>

\* search("  ") on a ready hook in AI_READY with a live worker
C5_Witness ==
    \E c \in Calls :
        /\ calls[1][c].st = "resolved"
        /\ calls[1][c].query = "blank"
        /\ calls[1][c].ready
        /\ calls[1][c].modeAtCall = "AI_READY"
        /\ workerRef[1] # Null
        /\ alive[1]

\* C6: search(q, k) resolves with at most k entries, whatever q and k are.
C6_AtMostTopK ==
    \A i \in Inst : \A c \in Calls :
        calls[i][c].st = "resolved" => Len(calls[i][c].result) <= calls[i][c].topK

\* C7: the entries of a scored search result come in non-increasing order of
\* score: no entry has a lower score than the entry after it.
C7_ResultsSortedByScore ==
    \A i \in Inst : \A c \in Calls :
        (/\ calls[i][c].st = "resolved"
         /\ (variant = "A" \/ calls[i][c].modeAtCall = "AI_READY"))
           => \A n \in 1..(Len(calls[i][c].result) - 1) :
                 ScoreGE(calls[i][c].result[n].score, calls[i][c].result[n + 1].score)

\* search("papaya") in AI_READY: the best row is not the first row of the store
C7_Witness ==
    \E c \in Calls :
        /\ calls[1][c].st = "resolved"
        /\ calls[1][c].modeAtCall = "AI_READY"
        /\ calls[1][c].query = "papaya"
        /\ Len(calls[1][c].result) >= 2
        /\ calls[1][c].result[1].item = "b"

\* the bootstrap of hook i took, or is taking, the warm path
WarmStart(i) == pc[i] \in {"warmVectors", "warmDocs"} \/ existingVectors[i] # <<>>

\* C8: a bootstrap that finds vectors in the store posts LOAD_VECTORS and no
\* INIT, runs no batch embedding, has no VECTORS_GENERATED to handle and leaves
\* the store as it read it; a store that holds vectors keeps its count through
\* every step of every later bootstrap.
C8_WarmStartIdempotent ==
    /\ [](WarmStart(1)
            => /\ ~HasType(toWorker[1], "INIT")
               /\ wmsg[1].type # "INIT"
               /\ wpc[1] \notin {"generate", "threw"}
               /\ ~HasType(toHook[1], "VECTORS_GENERATED")
               /\ savePc[1] = "idle"
               /\ (existingVectors[1] # <<>> => vectors = existingVectors[1]))
    /\ [][Len(vectors) > 0 => Len(vectors') = Len(vectors)]_vars

\* the second warm bootstrap in a row reached AI_READY over LOAD_VECTORS
C8_Witness ==
    /\ reloads = 2
    /\ WarmStart(1)
    /\ wmsg[1].type = "LOAD_VECTORS"
    /\ state[1].isReady /\ state[1].searchMode = "AI_READY"
    /\ Len(vectors) = Len(DocIds)

\* C9: when a VECTORS_GENERATED handler has run clear() and then
\* bulkPut(payload), the vector store holds exactly the records of its payload,
\* also when the handlers of two hooks interleave.
C9_ReplaceIsExact ==
    [][\A i \in Inst :
          (savePc[i] = "bulkPut" /\ savePc'[i] = "done") => vectors' = savePayload[i]]_vars

\* C10: in the guidelines-app a search made by a ready hook in BASIC_MODE with a
\* non-blank query resolves with exactly the stored documents whose lower-cased
\* title, text and tags contain the lower-cased query.
C10_KeywordSearchExact ==
    \A i \in Inst : \A c \in Calls :
        (/\ calls[i][c].st = "resolved"
         /\ calls[i][c].ready
         /\ calls[i][c].modeAtCall = "BASIC_MODE"
         /\ ~IsBlank(calls[i][c].query))
           => calls[i][c].result = KeywordFilter(guidelines, calls[i][c].query)

RECURSIVE Tokens(_)
\* the keyword tokens of a query: its maximal runs of non-space characters
Tokens(s) ==
    LET t == TrimLeft(s)
        RECURSIVE WordLen(_)
        WordLen(u) == IF u = <<>> \/ IsSpace(Head(u)) THEN 0 ELSE 1 + WordLen(Tail(u))
    IN IF t = <<>> THEN {}
       ELSE {SubSeq(t, 1, WordLen(t))} \cup Tokens(SubSeq(t, WordLen(t) + 1, Len(t)))

\* the stored documents found in a result list
ItemsOf(result) == {result[n].item : n \in 1..Len(result)}

\* document id contains the whole lower-cased text of query q
ContainsQuery(id, q) == Includes(ToLower(Content(Doc(id))), ToLower(QueryText(q)))

\* document id contains some keyword token of query q
ContainsToken(id, q) ==
    \E t \in Tokens(QueryText(q)) : Includes(ToLower(Content(Doc(id))), ToLower(t))

\* a BASIC_MODE search of the guidelines-app that its worker answered
AnsweredBasic(i, c) ==
    /\ calls[i][c].st = "resolved"
    /\ calls[i][c].ready
    /\ calls[i][c].modeAtCall = "BASIC_MODE"
    /\ calls[i][c].got # Null

\* C11 (as claimed): in BASIC_MODE a stored document is returned as soon as any
\* keyword token of the query, or the whole query, is a case-insensitive
\* substring of its title, text and tags.
C11_AnyTokenMatches ==
    \A i \in Inst : \A c \in Calls :
        AnsweredBasic(i, c)
           => \A n \in 1..Len(guidelines) :
                 (ContainsQuery(guidelines[n], calls[i][c].query)
                    \/ ContainsToken(guidelines[n], calls[i][c].query))
                 => guidelines[n] \in ItemsOf(calls[i][c].result)

\* C11 (amended): in BASIC_MODE every returned document contains the whole
\* lower-cased query as a substring of its lower-cased title, text and tags, and
\* a search the worker answered returns every stored document that does; the
\* words of the query are never matched one by one.
C11_WholeQueryMatches ==
    \A i \in Inst : \A c \in Calls :
        (/\ calls[i][c].st = "resolved"
         /\ calls[i][c].ready
         /\ calls[i][c].modeAtCall = "BASIC_MODE")
           => /\ \A id \in ItemsOf(calls[i][c].result) :
                    ContainsQuery(id, calls[i][c].query)
              /\ calls[i][c].got # Null
                    => \A n \in 1..Len(guidelines) :
                          ContainsQuery(guidelines[n], calls[i][c].query)
                             => guidelines[n] \in ItemsOf(calls[i][c].result)

\* "headache fever" answered with nothing although document a holds both words
C11_Witness ==
    \E c \in Calls :
        /\ AnsweredBasic(1, c)
        /\ calls[1][c].query = "multi"
        /\ calls[1][c].result = <<>>
        /\ \E n \in 1..Len(guidelines) : ContainsToken(guidelines[n], "multi")

\* C12: in the hook with the fallback timer, a search made once the hook is
\* ready in BASIC_MODE, and answered by the worker, returns every stored document
\* that contains the query: it falls back to a keyword match against the
\* document store.
C12_BasicModeKeywordFallback ==
    \A c \in Calls :
        (/\ calls[1][c].st = "resolved"
         /\ calls[1][c].ready
         /\ calls[1][c].modeAtCall = "BASIC_MODE"
         /\ calls[1][c].got # Null
         /\ ~IsBlank(calls[1][c].query))
           => \A n \in 1..Len(guidelines) :
                 ContainsQuery(guidelines[n], calls[1][c].query)
                    => guidelines[n] \in ItemsOf(calls[1][c].result)

\* the hook takes a RESULT message off its queue
ResultDelivered(i) ==
    /\ toHook[i] # <<>>
    /\ Head(toHook[i]).type = "RESULT"
    /\ toHook'[i] = Tail(toHook[i])
    /\ isMounted'[i] = isMounted[i]

\* C13: a RESULT message is handed to every listener attached at that moment,
\* whatever query the listener's call was made for: each of them is removed and
\* takes the message as its reply, so a call can resolve with the results
\* computed for another call's query.
C13_ResultReachesEveryListener ==
    [][ResultDelivered(1)
         => \A c \in Calls :
               calls[1][c].listener
                  => /\ ~calls'[1][c].listener
                     /\ calls'[1][c].got = Head(toHook[1]).query]_vars

\* the call for "headache" resolved with the reply to "papaya", whose best
\* document is b
C13_Witness ==
    \E c \in Calls :
        /\ calls[1][c].st = "resolved"
        /\ calls[1][c].query = "headache"
        /\ calls[1][c].got = "papaya"
        /\ calls[1][c].result # <<>>
        /\ calls[1][c].result[1].item = "b"

\* a step of a search: a call is made, answered or timed out, or the worker
\* takes, works on or answers a SEARCH message
SearchStep(i) ==
    \/ calls'[i] # calls[i]
    \/ wsearch'[i] # wsearch[i]
    \/ /\ alive[i] /\ alive'[i]
       /\ toWorker[i] # <<>>
       /\ Head(toWorker[i]).type = "SEARCH"
       /\ toWorker'[i] = Tail(toWorker[i])

C15_SeedOnlyWhenEmpty ==
    /\ [][\A i \in Inst :
             (pc[i] = "seedCount" /\ pc'[i] = "seedFetch") => Len(guidelines) = 0]_vars
    /\ [][\A i \in Inst :
             (pc[i] = "seedCount" /\ pc'[i] # pc[i] /\ Len(guidelines) > 0)
                => pc'[i] \in {"newWorker", "failed", "unmounted"}]_vars
    /\ [][guidelines' # guidelines => (guidelines = <<>> /\ guidelines' = DocIds)]_vars
    /\ [](\A i \in Inst : pc[i] = "newWorker" => Len(guidelines) > 0)

\* a second call in sequence returned on a store that holds the stale corpus
C15_Witness ==
    /\ reloads >= 1
    /\ pc[1] = "newWorker"
    /\ guidelines = StaleDocIds

\* C16: in the hook with the fallback timer, a bootstrap that threw (seeding,
\* worker creation, or a read of the stores failed) has ended in the catch: a
\* hook that was mounted then is ready, not loading, in BASIC_MODE with an error
\* recorded, and initialize() is not run again in that session.
C16_BootstrapErrorDegrades ==
    /\ [][(pc[1] # "failed" /\ pc'[1] = "failed" /\ isMounted[1])
            => /\ state'[1].isReady
               /\ ~state'[1].isLoading
               /\ state'[1].searchMode = "BASIC_MODE"
               /\ state'[1].error = "init"]_vars
    /\ []((pc[1] = "failed" /\ isMounted[1])
            => /\ state[1].isReady
               /\ ~state[1].isLoading
               /\ state[1].searchMode = "BASIC_MODE"
               /\ state[1].error # Null)
    /\ [][pc[1] = "failed" => pc'[1] = "failed"]_vars

\* reading the vector store failed after the worker was created
C16_Witness ==
    /\ pc[1] = "failed"
    /\ isMounted[1]
    /\ workerRef[1] # Null
    /\ state[1].isReady /\ state[1].searchMode = "BASIC_MODE"
    /\ state[1].error = "init"

\* C17: when persisting the generated vectors fails, the failure is swallowed:
\* the failing step changes nothing of the hook's state, of the queued messages
\* or of the worker, and once the hook has handled everything the worker sent,
\* a mounted hook is ready in AI_READY.
C17_SaveFailureSwallowed ==
    /\ [][(savePc[1] # "saveFailed" /\ savePc'[1] = "saveFailed")
            => /\ state' = state
               /\ toHook' = toHook
               /\ pc' = pc
               /\ guideVectors' = guideVectors
               /\ calls' = calls]_vars
    /\ []((savePc[1] = "saveFailed" /\ isMounted[1] /\ toHook[1] = <<>>)
            => (state[1].isReady /\ state[1].searchMode = "AI_READY"))

\* the save failed, nothing is stored, and a search in AI_READY was answered
\* with ranked results
C17_Witness ==
    \E c \in Calls :
        /\ savePc[1] = "saveFailed"
        /\ vectors = <<>>
        /\ state[1].searchMode = "AI_READY"
        /\ calls[1][c].st = "resolved"
        /\ calls[1][c].modeAtCall = "AI_READY"
        /\ calls[1][c].got = "papaya"
        /\ Len(calls[1][c].result) = Len(DocIds)

\* C18: the vector store never holds two records with the same guidelineId.
C18_OneVectorPerGuideline ==
    \A m, n \in 1..Len(vectors) :
        m # n => vectors[m].guidelineId # vectors[n].guidelineId

\* C19: on a cold start, at the step on which the hook's searchMode becomes
\* AI_READY the vector store already holds exactly one vector for each guideline
\* that was sent in INIT.
C19_PersistedBeforeReady ==
    [][(/\ wmsg[1].type = "INIT"
        /\ state[1].searchMode # "AI_READY"
        /\ state'[1].searchMode = "AI_READY")
          => /\ Len(vectors) = Len(wmsg[1].payload)
             /\ \A n \in 1..Len(vectors) : vectors[n].guidelineId = wmsg[1].payload[n]]_vars

\* a call made in AI_READY and resolved
ResolvedInAI(c) ==
    /\ calls[1][c].st = "resolved"
    /\ calls[1][c].ready
    /\ calls[1][c].modeAtCall = "AI_READY"

\* C20 (as claimed): two search(q, k) calls made one right after the other in
\* AI_READY, with the same q and k, resolve with identical ordered lists.
C20_SameCallSameResult ==
    \A c \in Calls :
        (/\ c + 1 \in Calls
         /\ ResolvedInAI(c) /\ ResolvedInAI(c + 1)
         /\ calls[1][c].query = calls[1][c + 1].query
         /\ calls[1][c].topK = calls[1][c + 1].topK)
           => calls[1][c].result = calls[1][c + 1].result

\* C20 (amended): two search(q, k) calls made in AI_READY with the same q and k,
\* each resolved by the reply to its own query, resolve with identical ordered
\* lists.
C20_SameReplySameResult ==
    \A c, d \in Calls :
        (/\ ResolvedInAI(c) /\ ResolvedInAI(d)
         /\ calls[1][c].query = calls[1][d].query
         /\ calls[1][c].topK = calls[1][d].topK
         /\ calls[1][c].got = calls[1][c].query
         /\ calls[1][d].got = calls[1][d].query)
           => calls[1][c].result = calls[1][d].result

\* two calls for "papaya", each answered with the ranking for "papaya"
C20_Witness ==
    \E c, d \in Calls :
        /\ c # d
        /\ ResolvedInAI(c) /\ ResolvedInAI(d)
        /\ calls[1][c].query = "papaya" /\ calls[1][d].query = "papaya"
        /\ calls[1][c].got = "papaya" /\ calls[1][d].got = "papaya"
        /\ Len(calls[1][c].result) >= 2
        /\ calls[1][c].result[1].item = "b"

\* an entry {...item.item, score} carries the fields of a guideline (id, title,
\* text, tags): the row it was made from had an item
HasDocumentFields(entry) == entry.item # Null

\* C21: no entry of the results the frontend hook shows after a vector search
\* lacks the document fields: a stored vector whose guideline is not in the
\* Document Store yields no entry made of a score alone.
C21_ResultsAreStoredGuidelines ==
    \A i \in Inst :
        variant = "C" =>
            \A n \in 1..Len(state[i].results) : HasDocumentFields(state[i].results[n])

\* C22: in the guidelines-app hook, once INIT is posted and the worker lives, the
\* hook eventually leaves INITIALIZING: it becomes ready in BASIC_MODE unless the
\* worker answered with AI_READY, also when no STATUS message ever comes.
C22_InitLeavesInitializing ==
    (variant = "B" /\ pc[1] = "done" /\ alive[1])
        ~> \/ ~alive[1]
           \/ state[1].isReady /\ state[1].searchMode = "BASIC_MODE"
           \/ state[1].searchMode = "AI_READY"

\* C23: every search() promise of the guidelines-app hook that passed the guard
\* and is pending on a live worker eventually resolves, whatever the worker
\* answers and also when it does not answer.
C23_SearchResolvesB ==
    \A c \in Calls :
        (variant = "B" /\ calls[1][c].st = "pending" /\ alive[1])
            ~> (calls[1][c].st = "resolved" \/ ~alive[1])

\* C24: in the frontend hook a failure of initializeWorker's try block ends in a
\* degraded state: no rejection leaves initializeWorker, the catch block starts
\* no regeneration (no INIT reaches the worker) and searchMode stays BASIC.
C24_InitFailureDegrades ==
    \A i \in Inst :
        variant = "C" =>
            /\ pc[i] # "rejected"
            /\ pc[i] \in {"catchFetch", "retried"} =>
                  /\ state[i].searchMode = "BASIC"
                  /\ wpc[i] = "idle"
                  /\ ~HasType(toWorker[i], "INIT")

\* C25: a warm start on vectors of another length than the model's is taken like
\* any other: the Vector Store is left as it is and no INIT is sent (nothing is
\* regenerated), the worker holds the stored vectors once the hook is in
\* AI_READY, and a search answered by the ranking returns the scores computed
\* between the query vector and the stored vectors of the other length.
C25_WarmStartReusesAnyVectors ==
    /\ vectors \in {OldVectors(1), OldVectors(3)}
    /\ ~HasType(toWorker[1], "INIT") /\ wmsg[1].type # "INIT"
    /\ state[1].searchMode = "AI_READY"
          => guideVectors[1] = vectorsWithItems(vectors, guidelines)
    /\ \A c \in Calls :
          (calls[1][c].st = "resolved" /\ calls[1][c].got # Null /\ calls[1][c].result # <<>>)
             => calls[1][c].result =
                   topResults(extractorFn(QueryText(calls[1][c].got)),
                              vectorsWithItems(vectors, guidelines))

\* a search made in AI_READY was answered with a ranking over stored vectors
\* whose length is not the model's
C25_Witness ==
    \E c \in Calls :
        /\ state[1].searchMode = "AI_READY"
        /\ calls[1][c].modeAtCall = "AI_READY"
        /\ calls[1][c].st = "resolved" /\ calls[1][c].got # Null
        /\ Len(calls[1][c].result) = Len(DocIds)
        /\ Len(vectors[1].vector) # ModelDim

\* the STATUS messages in a queue
StatusCount(queue) == Len(SelectSeq(queue, LAMBDA m : m.type = "STATUS"))

\* the INIT / LOAD_VECTORS handler of the worker runs to its end on this step
HandlerCompletes(i) == wpc[i] # "done" /\ wpc'[i] = "done"

\* C26: when the hook with the fallback timer is in AI_READY its worker has a
\* loaded model; the worker posts one STATUS message on the step that completes
\* its INIT or LOAD_VECTORS handler and on no other step, and a STATUS AI_READY
\* only with the extractor set.
C26_ReadyMeansModelLoaded ==
    /\ [](state[1].searchMode = "AI_READY" => extractor[1] = "model")
    /\ [][/\ HandlerCompletes(1) => StatusCount(toHook'[1]) = StatusCount(toHook[1]) + 1
          /\ ~HandlerCompletes(1) => StatusCount(toHook'[1]) <= StatusCount(toHook[1])
          /\ (HandlerCompletes(1) /\ toHook'[1][Len(toHook'[1])].mode = "AI_READY")
                => extractor'[1] = "model"]_vars

\* the hook is in AI_READY after its worker completed the handler of a request
C26_Witness ==
    /\ state[1].searchMode = "AI_READY"
    /\ extractor[1] = "model"
    /\ wpc[1] = "done"
    /\ wmsg[1].type \in {"INIT", "LOAD_VECTORS"}
    /\ toHook[1] = <<>>

\* C27: every RESULT the worker of the hook with the fallback timer posts is
\* empty or ranks the complete vector set, one entry for each guideline of the
\* INIT or LOAD_VECTORS request, never a set INIT is part-way through generating.
C27_RanksCompleteSet ==
    \A n \in 1..Len(toHook[1]) :
        (variant = "A" /\ toHook[1][n].type = "RESULT")
            => \/ toHook[1][n].results = <<>>
               \/ Len(toHook[1][n].results) = Len(wmsg[1].payload)

\* C28: in the hook with the fallback timer the 10 s timer of a search that was
\* already resolved never sets isSearching to false while another search is
\* pending: after such a timer fires, isSearching is still true.
C28_StaleTimerKeepsSearching ==
    [][\A c \in Calls :
          (/\ variant = "A"
           /\ calls[1][c].st = "resolved"
           /\ calls[1][c].timer = "armed" /\ calls'[1][c].timer = "fired"
           /\ \E d \in Calls : calls'[1][d].st = "pending")
             => state'[1].isSearching]_vars

\* C29: once the cleanup of a hook with the fallback timer has run, no worker the
\* hook created is alive, also when the worker is created after the cleanup.
C29_NoWorkerAfterUnmount ==
    \A i \in Inst :
        (variant = "A" /\ pc[i] # "unmounted" /\ ~isMounted[i]) => ~alive[i]

\* the rows of the Vector Store for guideline id
RowsOf(id) == SelectSeq(vectors, LAMBDA r : r.guidelineId = id)

\* C30: once every call of generateAllEmbeddings has returned, the Vector Store
\* holds exactly one vector for every guideline in the Document Store: none is
\* left without a vector, none has two.
C30_EmbeddingsComplete ==
    (\A i \in Inst : genPc[i] = "returned")
        => \A n \in 1..Len(guidelines) : Len(RowsOf(guidelines[n])) = 1

====
